---- MODULE Spec2Model ----
(***************************************************************************)
(* The retry decorator of jam-nodes: createRetryNode(node).executor        *)
(* (packages/nodes/src/logic/retry.ts).                                    *)
(*                                                                         *)
(* One decorated call is a JavaScript async function.  Between two awaits  *)
(* its code runs without interruption, so a call takes three kinds of      *)
(* step:                                                                   *)
(*   ExecutorBegin   lines 55-63: the locals, the first loop test, the     *)
(*                   first call of node.executor;                          *)
(*   WrappedSettles  lines 63-88: the awaited node.executor settles (it    *)
(*                   returns a result or throws), the result is judged,    *)
(*                   and the call returns, gives up, or arms the timer,    *)
(*                   or what line 78 throws leaves the call;               *)
(*   TimerFires      lines 88-89, 60-63 and 92-95: the timer resolves,     *)
(*                   attempt is incremented, the loop test runs again.     *)
(* Between the steps the clock that Date.now() reads moves on              *)
(* (TimePasses): the wrapped executor takes time, a second call begins     *)
(* at any time, and a timer resolves when Date.now() reads its due time,   *)
(* later, or a millisecond less.                                           *)
(* Every variable is a function of the call, so that two calls of the      *)
(* same wrapped node can be put side by side.                              *)
(*                                                                         *)
(* Optional JavaScript values (T | undefined) are sequences of length at   *)
(* most one: << >> is undefined and <<v>> is the value v.                  *)
(* Numbers are integers; the configurations used keep every product far    *)
(* below 2^53, where JavaScript's doubles are exact.                       *)
(*                                                                         *)
(* Besides the decorated call the module holds the node definitions of     *)
(* the package and what createRetryNode derives from them, the validation  *)
(* of a value by the decorated inputSchema, and the executors of the       *)
(* package's nodes by the service calls they make.  Its specifications:    *)
(*   Spec          one decorated call, any outcomes of node.executor;      *)
(*   SpecDefaults  one decorated call with the schema's default delays;    *)
(*   SpecEquiv     two calls whose outcomes differ only in raise/return;   *)
(*   SpecSchema    one validation by node.inputSchema.and(RetryConfig);    *)
(*   SpecWrap      createRetryNode on any node, then two executions;       *)
(*   SpecConc      two concurrent calls with their own inputs;             *)
(*   SpecAdapters  one direct execution of any node's executor;            *)
(*   SpecDirect    one call given a configuration no schema has checked;   *)
(*   SpecLive      two calls under the event loop's scheduling;            *)
(*   SpecChain     a wrapper wrapped a second time;                        *)
(*   SpecRerun     a wrapper around an adapter that notifies;              *)
(*   SpecSeo       one execution of seo_keyword_research, seed by seed.    *)
(***************************************************************************)
EXTENDS Integers, Sequences, FiniteSets, TLC

VARIABLES
    pc,           \* where each call is: "idle", "awaiting", "delaying", "done", "raised"
    input,        \* the input each call was given (the RetryConfig part)
    context,      \* the execution context each call was given
    attempt,      \* retry.ts:56  let attempt
    start,        \* retry.ts:57  const start = Date.now()
    lastError,    \* retry.ts:58  let lastError: string | undefined
    result,       \* what the call returned: << >> until it returns
    invocations,  \* how many times the call has invoked node.executor
    passed,       \* the arguments of those invocations, in order
    history,      \* the outcomes of those invocations that have settled, in order
    delays,       \* the delays the call has handed to setTimeout, in order
    wake,         \* the clock reading at which the call's pending timer is due
    now,          \* the clock, Date.now()
    candidate,    \* a value offered to the decorated node's inputSchema
    parsed,       \* what the inputSchema made of it: << >> until it is parsed
    node,         \* the node definition given to createRetryNode
    adapterRun,   \* one direct execution of node.executor: a record
    seoRun,       \* one execution of seo_keyword_research with its data
    retryNode     \* what createRetryNode(node) returned: << >> before the call

\* The variables of the decorated calls.
callVars == <<pc, input, context, attempt, start, lastError, result,
              invocations, passed, history, delays, wake, now>>

\* The variables of input validation.
schemaVars == <<candidate, parsed>>

\* The variables the executor of createRetryNode(node) does not touch.
auxVars == <<schemaVars, node, adapterRun, seoRun>>

vars == <<callVars, auxVars, retryNode>>

-----------------------------------------------------------------------------
(* Bounds of the model. *)

\* The largest maxRetries among the freely combined configurations.
MaxRetriesBound == 3

\* The largest maxRetries of two calls run side by side.
EquivMaxRetries == 2

\* The clock, Date.now(), is followed in steps of Quantum milliseconds up to
\* MaxClock, past the due time of a first timer; beyond, it is followed from
\* one timer's due time to the next.
Quantum == 12

MaxClock == 12

\* The most seed keywords of an input of seo_keyword_research, and the most
\* keywords the service returns for one seed.
MaxSeeds == 2

MaxResults == 2

\* The largest maxRetries of a wrapper wrapped a second time.
ChainMaxRetries == 2

\* The calls of a decorated executor, each with its own locals: two calls
\* made from outside, or the call of an outer wrapper and the calls it makes
\* of the wrapper it wraps, one for each of its attempts.
Calls == 1..(ChainMaxRetries + 2)

\* The calls made from outside.
Pair == {1, 2}

-----------------------------------------------------------------------------
(* JavaScript helpers. *)

Undefined == << >>

Some(v) == <<v>>

\* Math.min
Min(a, b) == IF a <= b THEN a ELSE b

\* Math.pow for a non-negative integer exponent
RECURSIVE Pow(_, _)
Pow(b, e) == IF e <= 0 THEN 1 ELSE b * Pow(b, e - 1)

\* x || d on numbers: 0 is falsy and is replaced by d
OrDefault(x, d) == IF x = 0 THEN d ELSE x

\* Spread with the operands in the other order: the fields of f win.
Spread_firstWins(f, g) ==
    [k \in (DOMAIN f) \cup (DOMAIN g) |-> IF k \in DOMAIN f THEN f[k] ELSE g[k]]

\* { ...f, ...g }: the fields of g override those of f
Spread(f, g) ==
    [k \in (DOMAIN f) \cup (DOMAIN g) |-> IF k \in DOMAIN g THEN g[k] ELSE f[k]]

\* `${x}` for x: string | undefined
TemplateStr(x) == IF x = Undefined THEN "undefined" ELSE x[1]

-----------------------------------------------------------------------------
(* The wrapped executor's outcomes: NodeExecutionResult, or a thrown value. *)

\* node.executor returned { success, output, error }
Returned(success, output, error) ==
    [kind |-> "return", success |-> success, output |-> output, error |-> error]

\* node.executor threw (or its promise rejected with) new Error(message)
ThrownError(message) == [kind |-> "throw", isError |-> TRUE, message |-> message]

\* node.executor threw a value that is no Error, here a number
ThrownValue(value) == [kind |-> "throw", isError |-> FALSE, value |-> value]

\* node.executor threw a value that is no Error and has no string conversion:
\* Object.create(null)
ThrownObject == [kind |-> "throw", isError |-> FALSE]

\* The outputs the wrapped node can produce.  The second one has a field
\* named like the retry metadata.
WrappedOutputs == {[value |-> 42], [value |-> 42, retriesAttempted |-> 7]}

\* The error texts of the wrapped executor's results.
ErrorTexts == {"boom", "bust"}

Outcomes ==
    {Returned(TRUE, Some(out), Undefined) : out \in WrappedOutputs}
    \cup {Returned(TRUE, Undefined, Undefined),
          Returned(TRUE, Undefined, Some("bust")),
          Returned(FALSE, Undefined, Some("boom"))}
    \cup {ThrownError("boom"), ThrownValue(42), ThrownObject}

-----------------------------------------------------------------------------
(* The inputs.  RetryConfigSchema (retry.ts:7-16) admits maxRetries in      *)
(* 1..10, initialDelayMs >= 0, maxDelayMs >= 0 and backoffMultiplier >= 1.  *)

RetryConfigSchema(cfg) ==
    /\ cfg.maxRetries \in 1..10
    /\ cfg.initialDelayMs >= 0
    /\ cfg.maxDelayMs >= 0
    /\ cfg.backoffMultiplier >= 1

\* Freely combined configurations, the zeros the schema admits included.
GeneralInputs ==
    [maxRetries : 1..MaxRetriesBound,
     initialDelayMs : {0, 10},
     maxDelayMs : {0, 25},
     backoffMultiplier : {1, 2}]

\* The schema's default delays with seven attempts.
DefaultsInput ==
    [maxRetries |-> 6, initialDelayMs |-> 1000, maxDelayMs |-> 30000,
     backoffMultiplier |-> 2]

\* That configuration, and the spec's "boom" scenario.
ScenarioInputs ==
    {DefaultsInput,
     [maxRetries |-> 3, initialDelayMs |-> 10, maxDelayMs |-> 1000,
      backoffMultiplier |-> 2]}

Inputs == GeneralInputs \cup ScenarioInputs

-----------------------------------------------------------------------------
(* Input validation.  A value offered to a schema is an object whose fields *)
(* are tagged JavaScript values; an absent key is the undefined value.      *)

Str(s) == [t |-> "string", s |-> s]
Num(n) == [t |-> "number", n |-> n]
Undef == [t |-> "undefined"]

\* .default(d): undefined is replaced by d before the inner schema is tried
ZDefault(v, d) == IF v.t = "undefined" THEN d ELSE v

\* z.number().min(lo)
ZNumberMin(v, lo) == v.t = "number" /\ v.n >= lo

\* z.enum([...]) and z.union of literals
ZOneOf(v, allowed) == v \in allowed

\* retry.ts:7-16  RetryConfigSchema applied to an object: the defaults, then
\* the bounds
ParseRetryConfig(v) ==
    LET value == [maxRetries |-> ZDefault(v.maxRetries, Num(3)),
                  initialDelayMs |-> ZDefault(v.initialDelayMs, Num(1000)),
                  maxDelayMs |-> ZDefault(v.maxDelayMs, Num(30000)),
                  backoffMultiplier |-> ZDefault(v.backoffMultiplier, Num(2))]
    IN [ok |-> /\ ZNumberMin(value.maxRetries, 1) /\ value.maxRetries.n <= 10
               /\ ZNumberMin(value.initialDelayMs, 0)
               /\ ZNumberMin(value.maxDelayMs, 0)
               /\ ZNumberMin(value.backoffMultiplier, 1),
        value |-> value]

\* schemas/index.ts:35-44  SoraVideoInputSchema, the inputSchema of the wrapped
\* node: an object schema, which ignores the keys it does not declare
ParseNodeInput(v) ==
    LET value == [prompt |-> v.prompt,
                  model |-> ZDefault(v.model, Str("sora-2")),
                  seconds |-> ZDefault(v.seconds, Num(4)),
                  size |-> ZDefault(v.size, Str("1280x720"))]
    IN [ok |-> /\ value.prompt.t = "string"
               /\ ZOneOf(value.model, {Str("sora-2"), Str("sora-2-pro")})
               /\ ZOneOf(value.seconds, {Num(4), Num(8), Num(12)})
               /\ ZOneOf(value.size, {Str("720x1280"), Str("1280x720"),
                                      Str("1024x1792"), Str("1792x1024")}),
        value |-> value]

\* Intersect accepting what either side accepts (.or in place of .and).
Intersect_either(l, r) ==
    [ok |-> l.ok \/ r.ok, value |-> Spread(l.value, r.value)]

\* retry.ts:47  node.inputSchema.and(RetryConfigSchema): both sides parse the
\* same value, both must accept it, and their results are merged; the merge
\* fails when the two results hold different values under the same key
Intersect(l, r) ==
    [ok |-> /\ l.ok
            /\ r.ok
            /\ \A k \in (DOMAIN l.value) \cap (DOMAIN r.value) :
                  l.value[k] = r.value[k],
     value |-> Spread(l.value, r.value)]

\* retry.ts:47  the inputSchema of createRetryNode(node)
ParseDecoratedInput(v) == Intersect(ParseNodeInput(v), ParseRetryConfig(v))

\* Values offered as the wrapped node's input, valid and invalid.
NodeInputCandidates ==
    [prompt : {Undef, Str("a sunset"), Num(7)},
     model : {Undef, Str("sora-2-pro"), Str("sora-3")},
     seconds : {Undef, Num(8), Num(5)},
     size : {Undef, Str("1280x720")}]

\* Values offered as the retry configuration, valid and invalid.
RetryConfigCandidates ==
    [maxRetries : {Undef, Num(0), Num(1), Num(10), Num(11), Str("3")},
     initialDelayMs : {Undef, Num(-1), Num(0), Num(1000)},
     maxDelayMs : {Undef, Num(-1), Num(0)},
     backoffMultiplier : {Undef, Num(0), Num(1), Num(2)}]

\* { ...a, ...b } of two objects with different keys
StructuralMerge(a, b) ==
    [k \in (DOMAIN a) \cup (DOMAIN b) |-> IF k \in DOMAIN b THEN b[k] ELSE a[k]]

-----------------------------------------------------------------------------
(* Node definitions.  A schema and an executor are values with an identity: *)
(* a schema is named after its declaration, an executor after its node.     *)

Schema(name) == [schema |-> name]
Executor(type) == [executorOf |-> type]

\* defineNode returns a node definition with the fields it is given
defineNode(config) == config

twitterMonitorNode ==
    defineNode([type |-> "twitter_monitor",
                name |-> "Twitter Monitor",
                description |->
                    "Search Twitter/X for posts matching keywords",
                category |-> "integration",
                inputSchema |-> Schema("TwitterMonitorInputSchema"),
                outputSchema |-> Schema("TwitterMonitorOutputSchema"),
                estimatedDuration |-> 15,
                capabilities |-> [supportsRerun |-> TRUE],
                executor |-> Executor("twitter_monitor")])

redditMonitorNode ==
    defineNode([type |-> "reddit_monitor",
                name |-> "Reddit Monitor",
                description |->
                    "Search Reddit for posts matching keywords across all subreddits",
                category |-> "integration",
                inputSchema |-> Schema("RedditMonitorInputSchema"),
                outputSchema |-> Schema("RedditMonitorOutputSchema"),
                estimatedDuration |-> 20,
                capabilities |-> [supportsRerun |-> TRUE],
                executor |-> Executor("reddit_monitor")])

linkedinMonitorNode ==
    defineNode([type |-> "linkedin_monitor",
                name |-> "LinkedIn Monitor",
                description |->
                    "Search LinkedIn for posts matching keywords using ForumScout",
                category |-> "integration",
                inputSchema |-> Schema("LinkedInMonitorInputSchema"),
                outputSchema |-> Schema("LinkedInMonitorOutputSchema"),
                estimatedDuration |-> 60,
                capabilities |-> [supportsRerun |-> TRUE],
                executor |-> Executor("linkedin_monitor")])

searchContactsNode ==
    defineNode([type |-> "search_contacts",
                name |-> "Search Contacts",
                description |->
                    "Search for contacts using Apollo.io People Search API",
                category |-> "integration",
                inputSchema |-> Schema("SearchContactsInputSchema"),
                outputSchema |-> Schema("SearchContactsOutputSchema"),
                estimatedDuration |-> 5,
                capabilities |-> [supportsEnrichment |-> TRUE, supportsBulkActions |-> TRUE, supportsRerun |-> TRUE],
                executor |-> Executor("search_contacts")])

seoKeywordResearchNode ==
    defineNode([type |-> "seo_keyword_research",
                name |-> "Keyword Research",
                description |->
                    "Research keywords to get search volume, difficulty, and intent data",
                category |-> "integration",
                inputSchema |-> Schema("SeoKeywordResearchInputSchema"),
                outputSchema |-> Schema("SeoKeywordResearchOutputSchema"),
                estimatedDuration |-> 10,
                capabilities |-> [supportsRerun |-> TRUE],
                executor |-> Executor("seo_keyword_research")])

soraVideoNode ==
    defineNode([type |-> "sora_video",
                name |-> "Generate Sora Video",
                description |->
                    "Generate AI video using OpenAI Sora 2",
                category |-> "integration",
                inputSchema |-> Schema("SoraVideoInputSchema"),
                outputSchema |-> Schema("SoraVideoOutputSchema"),
                estimatedDuration |-> 60,
                capabilities |-> [supportsRerun |-> TRUE],
                executor |-> Executor("sora_video")])

socialKeywordGeneratorNode ==
    defineNode([type |-> "social_keyword_generator",
                name |-> "Social Keyword Generator",
                description |->
                    "Generate platform-specific search keywords using AI for social monitoring",
                category |-> "action",
                inputSchema |-> Schema("SocialKeywordGeneratorInputSchema"),
                outputSchema |-> Schema("SocialKeywordGeneratorOutputSchema"),
                estimatedDuration |-> 15,
                capabilities |-> [supportsRerun |-> TRUE],
                executor |-> Executor("social_keyword_generator")])

socialAiAnalyzeNode ==
    defineNode([type |-> "social_ai_analyze",
                name |-> "Social AI Analyze",
                description |->
                    "Analyze social media posts for relevance, sentiment, and urgency using AI",
                category |-> "action",
                inputSchema |-> Schema("SocialAiAnalyzeInputSchema"),
                outputSchema |-> Schema("SocialAiAnalyzeOutputSchema"),
                estimatedDuration |-> 60,
                capabilities |-> [supportsRerun |-> TRUE, supportsBulkActions |-> TRUE],
                executor |-> Executor("social_ai_analyze")])

\* integrations/index.ts: the node definitions it exports, but seoAuditNode,
\* whose definition (dataforseo/seo-audit) is not among the sources.
IntegrationNodes ==
    {redditMonitorNode, twitterMonitorNode, linkedinMonitorNode,
     soraVideoNode, seoKeywordResearchNode, searchContactsNode}

\* ai/index.ts and ai/keyword-generator.ts: the node definitions they hold.
AiNodes == {socialAiAnalyzeNode, socialKeywordGeneratorNode}

\* The node definitions of the package whose source is at hand.
AdapterNodes == IntegrationNodes \cup AiNodes

\* a.and(b): a new schema that refers to both
SchemaAnd(a, b) == [and |-> <<a, b>>]

\* createRetryNode deriving the name without the " (Retry)" marker.
createRetryNode_sameName(n) ==
    defineNode([type |-> n.type \o "_with_retry",
                name |-> n.name,
                description |-> "Retries execution on failure. " \o n.description,
                category |-> n.category,
                inputSchema |-> SchemaAnd(n.inputSchema, Schema("RetryConfigSchema")),
                outputSchema |->
                    SchemaAnd(n.outputSchema, Schema("RetryMetadataSchema")),
                capabilities |-> n.capabilities,
                executor |-> [retryExecutorOf |-> n.executor]])

\* retry.ts:37-53 and 97  createRetryNode(node): the definition it returns
createRetryNode(n) ==
    defineNode([type |-> n.type \o "_with_retry",
                name |-> n.name \o " (Retry)",
                description |-> "Retries execution on failure. " \o n.description,
                category |-> n.category,
                inputSchema |-> SchemaAnd(n.inputSchema, Schema("RetryConfigSchema")),
                outputSchema |->
                    SchemaAnd(n.outputSchema, Schema("RetryMetadataSchema")),
                capabilities |-> n.capabilities,
                executor |-> [retryExecutorOf |-> n.executor]])

-----------------------------------------------------------------------------
(* The executors of the package's nodes, by the calls they make.  An input  *)
(* is reduced to its number of work units (keywords, seed keywords that are *)
(* not blank, batches of posts) and to whether monitoringConfigId is set; a *)
(* service call returns a number of items that add to the accumulated list  *)
(* (posts found, contacts with an email, keywords not seen before, analyses *)
(* kept) or raises.                                                         *)

MaxUnits == 2

ServiceNames ==
    {"twitter", "forumScout", "apollo", "dataForSeo", "openai", "anthropic",
     "notifications", "analyzedPosts"}

\* What one executor does, in the order of its source:
\*   inputError     returned when the input has no work unit, before anything
\*   required       the service checked for presence, and the error returned
\*                  when it is absent
\*   emptySuccess   an input without work units succeeds after that check
\*   main           the one call made first; a raise of it is not handled
\*                  locally
\*   body           the second call of a search made in two awaits: the
\*                  fetch of the response, then the reading of its body
\*   loop           the call made once per work unit ("units"), per item
\*                  the main call returned ("found") or per such item that
\*                  has an id ("foundWithId"), and whether an inner try/catch
\*                  skips an item whose call raised
\*   store          analyzedPosts.storePosts is called when present
\*   notify         notifications.send is called when present: "never",
\*                  "ifAny" (only with a non-empty result) or "always"
\*   fallback       the error of the outer catch for a thrown non-Error
twitterMonitorExecutor ==
    [inputError |-> <<"No keywords provided for Twitter search">>,
     required |-> <<"twitter">>,
     requiredError |-> "Twitter service not configured. Please provide context.services.twitter.",
     emptySuccess |-> FALSE, body |-> << >>,
     main |-> <<[service |-> "twitter", method |-> "searchTweets"]>>,
     loop |-> << >>, store |-> FALSE, notify |-> "ifAny",
     fallback |-> "Failed to monitor Twitter"]

linkedinMonitorExecutor ==
    [inputError |-> <<"No valid keywords provided">>,
     required |-> <<"forumScout">>,
     requiredError |-> "ForumScout service not configured. Please provide context.services.forumScout.",
     emptySuccess |-> FALSE, body |-> << >>,
     main |-> <<[service |-> "forumScout", method |-> "searchLinkedIn"]>>,
     loop |-> << >>, store |-> FALSE, notify |-> "ifAny",
     fallback |-> "Failed to monitor LinkedIn"]

redditMonitorExecutor ==
    [inputError |-> << >>,
     required |-> << >>,
     requiredError |-> "",
     emptySuccess |-> FALSE,
     main |-> <<[service |-> "reddit", method |-> "fetch"]>>,
     body |-> <<[service |-> "reddit", method |-> "json"]>>,
     loop |-> << >>, store |-> FALSE, notify |-> "ifAny",
     fallback |-> "Failed to monitor Reddit"]

searchContactsExecutor ==
    [inputError |-> << >>,
     required |-> <<"apollo">>,
     requiredError |-> "Apollo service not configured. Please provide context.services.apollo.",
     emptySuccess |-> FALSE, body |-> << >>,
     main |-> <<[service |-> "apollo", method |-> "searchContacts"]>>,
     loop |-> <<[service |-> "apollo", method |-> "enrichContact",
                 over |-> "foundWithId", tolerated |-> TRUE]>>,
     store |-> FALSE, notify |-> "never",
     fallback |-> "Failed to search contacts"]

seoKeywordResearchExecutor ==
    [inputError |-> << >>,
     required |-> <<"dataForSeo">>,
     requiredError |-> "DataForSEO service not configured. Please provide context.services.dataForSeo.",
     emptySuccess |-> FALSE, body |-> << >>,
     main |-> << >>,
     loop |-> <<[service |-> "dataForSeo", method |-> "getRelatedKeywords",
                 over |-> "units", tolerated |-> TRUE]>>,
     store |-> FALSE, notify |-> "never",
     fallback |-> "Failed to research keywords"]

soraVideoExecutor ==
    [inputError |-> << >>,
     required |-> <<"openai">>,
     requiredError |-> "OpenAI service not configured. Please provide context.services.openai.",
     emptySuccess |-> FALSE, body |-> << >>,
     main |-> <<[service |-> "openai", method |-> "generateVideo"]>>,
     loop |-> << >>, store |-> FALSE, notify |-> "never",
     fallback |-> "Failed to generate video"]

socialKeywordGeneratorExecutor ==
    [inputError |-> << >>,
     required |-> <<"anthropic">>,
     requiredError |-> "Anthropic service not configured. Please provide context.services.anthropic.",
     emptySuccess |-> FALSE, body |-> << >>,
     main |-> <<[service |-> "anthropic", method |-> "generateText"]>>,
     loop |-> << >>, store |-> FALSE, notify |-> "always",
     fallback |-> "Failed to generate keywords"]

socialAiAnalyzeExecutor ==
    [inputError |-> << >>,
     required |-> <<"anthropic">>,
     requiredError |-> "Anthropic service not configured. Please provide context.services.anthropic.",
     emptySuccess |-> TRUE, body |-> << >>,
     main |-> << >>,
     loop |-> <<[service |-> "anthropic", method |-> "generateText",
                 over |-> "units", tolerated |-> FALSE]>>,
     store |-> TRUE, notify |-> "ifAny",
     fallback |-> "Failed to analyze posts"]

\* The executor of the node of the given type.
Plan(type) ==
    CASE type = "twitter_monitor" -> twitterMonitorExecutor
      [] type = "linkedin_monitor" -> linkedinMonitorExecutor
      [] type = "reddit_monitor" -> redditMonitorExecutor
      [] type = "search_contacts" -> searchContactsExecutor
      [] type = "seo_keyword_research" -> seoKeywordResearchExecutor
      [] type = "sora_video" -> soraVideoExecutor
      [] type = "social_keyword_generator" -> socialKeywordGeneratorExecutor
      [] type = "social_ai_analyze" -> socialAiAnalyzeExecutor

\* The lists of keywords a generated text holds for a platform.
KeywordLists == {<< >>, <<"ai">>, <<"ml", "ai">>}

\* keyword-generator.ts:72-76  what parsed.twitter, parsed.reddit or
\* parsed.linkedin is: "undefined" (the key is absent), "null", an "object"
\* without keywords, or an object with a list of "keywords".
PlatformValues ==
    [is : {"undefined", "null", "object"}, keywords : {<< >>}]
    \cup [is : {"keywords"}, keywords : KeywordLists]

\* keyword-generator.ts:79  the objects JSON.parse gives for a generated text
ParsedObjects ==
    [twitter : PlatformValues, reddit : PlatformValues,
     linkedin : PlatformValues]

\* The object of a text that was not parsed.
NoParsed ==
    [twitter |-> [is |-> "undefined", keywords |-> << >>],
     reddit |-> [is |-> "undefined", keywords |-> << >>],
     linkedin |-> [is |-> "undefined", keywords |-> << >>]]

\* A service call returned n items; text is the form of a generated text and
\* parsed the object its JSON parses to, withId the number of the items that
\* have an id, ok, status and statusText those of a Response.
ServiceReturns(n, text) ==
    [kind |-> "return", n |-> n, text |-> text, withId |-> n, ok |-> TRUE,
     status |-> 200, statusText |-> "OK", parsed |-> NoParsed]

\* search-contacts.ts:100  searchContacts returned n contacts, k with an id
ContactsReturned(n, k) == [ServiceReturns(n, "") EXCEPT !.withId = k]

\* reddit-monitor.ts:127  fetch resolved with a Response: ok is true for the
\* statuses 200..299
ResponseReturned(status, statusText) ==
    [ServiceReturns(0, "") EXCEPT !.ok = status \in 200..299,
                                 !.status = status,
                                 !.statusText = statusText]

\* The status lines of the Responses used; an HTTP/2 Response has an empty
\* statusText.
StatusLines ==
    {<<200, "OK">>, <<404, "Not Found">>, <<429, "Too Many Requests">>,
     <<500, "Internal Server Error">>, <<500, "">>}

\* ai/index.ts:136-141  the forms of the text generated for a batch of posts:
\* one that holds a JSON array, one that holds none, and one whose array
\* does not parse.
TextForms == {"json", "nojson", "badjson"}

\* keyword-generator.ts:60-79  the texts generated for a topic: one holds a
\* JSON object that parses to an object p, or it is of one of the other
\* forms.
KeywordTexts ==
    {ServiceReturns(0, t) : t \in TextForms \ {"json"}}
    \cup {[ServiceReturns(0, "json") EXCEPT !.parsed = p] : p \in ParsedObjects}

\* The texts generated for a batch of posts, n of which the text keeps.
BatchTexts == {ServiceReturns(n, t) : n \in 0..1, t \in TextForms}

\* What a call of the method by the executor of the node type can do.
ServiceOutcomes(type, method) ==
    {ThrownError("boom"), ThrownValue(42)}
    \cup (IF method = "generateText"
            THEN IF type = "social_keyword_generator" THEN KeywordTexts
                                                      ELSE BatchTexts
          ELSE IF method = "searchContacts"
            THEN UNION {{ContactsReturned(n, k) : k \in 0..n} :
                           n \in 0..MaxUnits}
          ELSE IF method = "fetch"
            THEN {ResponseReturned(l[1], l[2]) : l \in StatusLines}
          ELSE IF method \in {"enrichContact", "getRelatedKeywords"}
            THEN {ServiceReturns(n, "") : n \in 0..1}
          ELSE IF method \in {"send", "storePosts", "generateVideo"}
            THEN {ServiceReturns(1, "")}
            ELSE {ServiceReturns(n, "") : n \in 0..MaxUnits})

\* return { success: false, error }
AdapterFailure(r, message) ==
    [r EXCEPT !.phase = "done",
              !.result = Some([success |-> FALSE, output |-> Undefined,
                               error |-> Some(message)])]

\* return { success: true, output }: the output by the size of its list and
\* the total it reports
AdapterSuccess(r, returned, total) ==
    [r EXCEPT !.phase = "done",
              !.result = Some([success |-> TRUE,
                               output |-> Some([returned |-> returned,
                                                total |-> total]),
                               error |-> Undefined])]

\* await context.services.<service>.<method>(...): the call is made
CallService(r, phase, service, method) ==
    [r EXCEPT !.phase = phase,
              !.log = Append(@, [service |-> service, method |-> method,
                                 raised |-> FALSE])]

\* The call being awaited raised.
MarkRaised(r) == [r EXCEPT !.log[Len(r.log)].raised = TRUE]

\* AdapterCatches for a catch clause that handles Error values only.
AdapterCatches_errorsOnly(o) == o.isError

\* catch (error) { ... }: the outer catch of each executor takes every thrown
\* value
AdapterCatches(o) == TRUE

\* error instanceof Error ? error.message : '<fallback>'
AdapterCatchMessage(o, fallback) == IF o.isError THEN o.message ELSE fallback

\* OuterCatch with the notification in a try of its own: the work done is
\* returned when only the notification raised.
OuterCatch_keepsWork(r, p, o) ==
    IF r.phase = "notify"
      THEN AdapterSuccess(r, r.count, r.count)
      ELSE AdapterFailure(r, AdapterCatchMessage(o, p.fallback))

\* A thrown value reaches the outer catch of the executor.
OuterCatch(r, p, o) ==
    IF AdapterCatches(o)
      THEN AdapterFailure(r, AdapterCatchMessage(o, p.fallback))
      ELSE [r EXCEPT !.phase = "raised"]

\* The final return of success.
Finish(r, p) ==
    AdapterSuccess(r, r.count,
                   IF p.loop # << >> /\ p.loop[1].over \in {"found", "foundWithId"}
                     THEN r.found ELSE r.count)

\* The optional notification, then the return.
NotifyOrFinish(r, p) ==
    IF /\ "notifications" \in r.services
       /\ \/ p.notify = "always"
          \/ p.notify = "ifAny" /\ r.count > 0
      THEN CallService(r, "notify", "notifications", "send")
      ELSE Finish(r, p)

\* The optional storing of the analysed posts, then the rest.
StoreOrOn(r, p) ==
    IF /\ p.store
       /\ "analyzedPosts" \in r.services
       /\ r.configId
       /\ r.count > 0
      THEN CallService(r, "store", "analyzedPosts", "storePosts")
      ELSE NotifyOrFinish(r, p)

\* The loop goes to its item idx of total, or is over.
LoopAt(r, p, idx, total) ==
    IF idx <= total
      THEN CallService([r EXCEPT !.idx = idx, !.total = total], "loop",
                       p.loop[1].service, p.loop[1].method)
      ELSE StoreOrOn(r, p)

\* AdapterStart without the check for the required service.
AdapterStart_unchecked(r, p) ==
    IF p.inputError # << >> /\ r.units = 0
      THEN AdapterFailure(r, p.inputError[1])
    ELSE IF p.emptySuccess /\ r.units = 0
      THEN AdapterSuccess(r, 0, 0)
    ELSE IF p.main # << >>
      THEN CallService(r, "main", p.main[1].service, p.main[1].method)
      ELSE LoopAt(r, p, 1, r.units)

\* The executor from its first statement to its first await or return.
AdapterStart(r, p) ==
    IF p.inputError # << >> /\ r.units = 0
      THEN AdapterFailure(r, p.inputError[1])
    ELSE IF p.required # << >> /\ p.required[1] \notin r.services
      THEN AdapterFailure(r, p.requiredError)
    ELSE IF p.emptySuccess /\ r.units = 0
      THEN AdapterSuccess(r, 0, 0)
    ELSE IF p.main # << >>
      THEN CallService(r, "main", p.main[1].service, p.main[1].method)
      ELSE LoopAt(r, p, 1, r.units)

\* The values of a sequence in the order of their first occurrence:
\* [...new Set(list)]
RECURSIVE Unique(_)
Unique(list) ==
    IF list = << >> THEN << >>
    ELSE LET front == Unique(SubSeq(list, 1, Len(list) - 1))
             last == list[Len(list)] IN
         IF \E i \in 1..Len(front) : front[i] = last
           THEN front ELSE Append(front, last)

\* keyword-generator.ts:87  input.userKeywords || []
OrEmpty(userKeywords) ==
    IF userKeywords = Undefined THEN << >> ELSE userKeywords[1]

\* keyword-generator.ts:85-98  the keywords generated for a platform with
\* the user's keywords after them, each once
MergedKeywords(platform, userKeywords) ==
    Unique(platform.keywords \o OrEmpty(userKeywords))

\* keyword-generator.ts:101-105  the keywords of the three platforms, each
\* once
AllKeywords(object, userKeywords) ==
    Unique(MergedKeywords(object.twitter, userKeywords)
           \o MergedKeywords(object.reddit, userKeywords)
           \o MergedKeywords(object.linkedin, userKeywords))

\* The TypeError raised by [...parsed.<name>.keywords] when the platform is
\* not an object with a list of keywords.
KeywordsTypeError(name, platform) ==
    IF platform.is \in {"undefined", "null"}
      THEN ThrownError("Cannot read properties of " \o platform.is
                       \o " (reading 'keywords')")
      ELSE ThrownError("parsed." \o name \o ".keywords is not iterable")

\* keyword-generator.ts:67-136  the executor after generateText returned o:
\* the text is matched and parsed, the keywords of twitter, reddit and
\* linkedin are merged in that order, the first platform that has none
\* raising a TypeError which the catch of the executor takes, and the
\* notification is sent.
AfterText(r, p, o) ==
    IF o.text = "nojson"
      THEN AdapterFailure(r, "Could not parse keyword response")
    ELSE IF o.text = "badjson"
      THEN AdapterFailure(r, "Failed to parse keyword JSON response")
    ELSE IF o.parsed.twitter.is # "keywords"
      THEN OuterCatch(r, p, KeywordsTypeError("twitter", o.parsed.twitter))
    ELSE IF o.parsed.reddit.is # "keywords"
      THEN OuterCatch(r, p, KeywordsTypeError("reddit", o.parsed.reddit))
    ELSE IF o.parsed.linkedin.is # "keywords"
      THEN OuterCatch(r, p, KeywordsTypeError("linkedin", o.parsed.linkedin))
    ELSE LET all == AllKeywords(o.parsed, r.userKeywords) IN
         NotifyOrFinish([r EXCEPT !.count = Len(all), !.found = Len(all),
                                  !.keywords = all], p)

\* The executor after its search or generation returned o.
AfterWork(r, p, o) ==
    IF p.main[1].method = "generateText" THEN AfterText(r, p, o)
    ELSE IF p.loop # << >>
      THEN IF o.n = 0 THEN AdapterSuccess(r, 0, 0)
                      ELSE LoopAt([r EXCEPT !.found = o.n], p, 1,
                                  IF p.loop[1].over = "foundWithId"
                                    THEN o.withId ELSE o.n)
      ELSE NotifyOrFinish([r EXCEPT !.count = o.n, !.found = o.n], p)

\* The executor after its main call returned o: for a search made in two
\* awaits, a Response that is not ok raises an Error, and the body of one
\* that is ok is read.
AfterMain(r, p, o) ==
    IF p.body = << >> THEN AfterWork(r, p, o)
    ELSE IF ~o.ok
      THEN OuterCatch(r, p, ThrownError("Reddit API error: "
                                        \o ToString(o.status) \o " "
                                        \o o.statusText))
      ELSE CallService(r, "body", p.body[1].service, p.body[1].method)

\* The executor after the call of a loop item returned o: the items of a
\* text that holds no JSON array, or one that does not parse, are dropped.
AfterItem(r, p, o) ==
    LET kept == IF o.text \in {"nojson", "badjson"} THEN 0 ELSE o.n IN
    LoopAt([r EXCEPT !.count = @ + kept], p, r.idx + 1, r.total)

\* The executor after the awaited call settled with o.
AdapterStep(r, p, o) ==
    IF o.kind = "throw"
      THEN IF r.phase = "loop" /\ p.loop[1].tolerated
             THEN LoopAt(MarkRaised(r), p, r.idx + 1, r.total)
             ELSE OuterCatch(MarkRaised(r), p, o)
    ELSE IF r.phase = "main" THEN AfterMain(r, p, o)
    ELSE IF r.phase = "body" THEN AfterWork(r, p, o)
    ELSE IF r.phase = "loop" THEN AfterItem(r, p, o)
    ELSE IF r.phase = "store" THEN NotifyOrFinish(r, p)
    ELSE Finish(r, p)

\* An execution not begun, with the given input and services.  keywords is
\* the allKeywords of the keyword generator.  runs counts the executions a
\* retry wrapper has begun, and log then runs over them all.
NewRun(units, configId, userKeywords, services) ==
    [phase |-> "idle", units |-> units, configId |-> configId,
     userKeywords |-> userKeywords, services |-> services,
     found |-> 0, count |-> 0, idx |-> 0, total |-> 0, keywords |-> << >>,
     log |-> << >>, result |-> Undefined, runs |-> 0]

\* keyword-generator.ts:57, 87  the userKeywords the input of the node type
\* can hold: for the keyword generator none, or a list without or with a
\* keyword that is also generated.
UserKeywordsOf(type) ==
    IF type = "social_keyword_generator"
      THEN {Undefined, Some(<< >>), Some(<<"mine">>), Some(<<"ai">>)}
      ELSE {Undefined}

\* The numbers of work units the input of an executor can hold, for an
\* executor that reads them.
UnitsOf(p) ==
    IF \/ p.inputError # << >>
       \/ p.emptySuccess
       \/ p.main = << >>
      THEN 0..MaxUnits ELSE {0}

\* Whether the input holds a monitoringConfigId, for an executor that stores
\* posts under it.
ConfigIdsOf(p) == IF p.store THEN BOOLEAN ELSE {FALSE}

\* No executor is called directly.
AdapterIdle == adapterRun = NewRun(0, FALSE, Undefined, {})

-----------------------------------------------------------------------------
(* The executor of seo_keyword_research with its data: the seed keywords,   *)
(* the keywords the service returns for each, and the list it builds.       *)

\* The seed keywords used: plain, padded with spaces, and blank.
SeedStrings == {"seo", " ads ", " "}

\* String.prototype.trim on those strings
Trim(s) == CASE s = " " -> ""
             [] s = " ads " -> "ads"
             [] OTHER -> s

\* String.prototype.toLowerCase on the keywords used
ToLowerCase(s) == CASE s = "SEO" -> "seo"
                    [] OTHER -> s

\* The keywords the service can return: two spellings of one word, and
\* another word.
ServiceKeywords ==
    {[keyword |-> "seo", searchVolume |-> 10, keywordDifficulty |-> 40,
      cpc |-> 2, searchIntent |-> "informational"],
     [keyword |-> "SEO", searchVolume |-> 20, keywordDifficulty |-> 45,
      cpc |-> 3, searchIntent |-> "informational"],
     [keyword |-> "ads", searchVolume |-> 20, keywordDifficulty |-> 60,
      cpc |-> 5, searchIntent |-> "commercial"]}

\* What the call for one seed can come to: a list of keywords, or a raise.
SeoOutcomes ==
    {[kind |-> "return", results |-> r] :
        r \in UNION {[1..n -> ServiceKeywords] : n \in 0..MaxResults}}
    \cup {ThrownError("boom"), ThrownValue(42)}

\* keyword-research.ts:94-106  for (const kw of results): the keywords not
\* seen before, whatever their case, are pushed.
RECURSIVE AddResults(_, _)
AddResults(r, results) ==
    IF results = << >> THEN r
    ELSE LET kw == Head(results) IN
         AddResults(
           IF ToLowerCase(kw.keyword) \in r.processed
             THEN r
             ELSE [r EXCEPT
                     !.processed = @ \cup {ToLowerCase(kw.keyword)},
                     !.researched =
                        Append(@, [keyword |-> kw.keyword,
                                   searchVolume |-> kw.searchVolume,
                                   keywordDifficulty |-> kw.keywordDifficulty,
                                   cpc |-> ToString(kw.cpc),
                                   searchIntent |-> kw.searchIntent])],
           Tail(results))

\* The place of x in a list sorted with (a, b) => b.searchVolume -
\* a.searchVolume: after the elements that do not compare after it.
RECURSIVE InsertByVolume(_, _)
InsertByVolume(sorted, x) ==
    IF sorted = << >> THEN <<x>>
    ELSE IF x.searchVolume - Head(sorted).searchVolume > 0
      THEN <<x>> \o sorted
      ELSE <<Head(sorted)>> \o InsertByVolume(Tail(sorted), x)

\* keyword-research.ts:114  researchedKeywords.sort(...): a stable sort
RECURSIVE SortByVolume(_)
SortByVolume(s) ==
    IF s = << >> THEN << >>
    ELSE InsertByVolume(SortByVolume(SubSeq(s, 1, Len(s) - 1)), s[Len(s)])

\* keyword-research.ts:70-74 and 123-128: a failure result
SeoFailure(r, message) ==
    [r EXCEPT !.phase = "done",
              !.result = Some([success |-> FALSE, output |-> Undefined,
                               error |-> Some(message)])]

\* keyword-research.ts:113-122  the sort and the return of success
SeoFinish(r) ==
    LET keywords == SortByVolume(r.researched) IN
    [r EXCEPT !.phase = "done",
              !.researched = keywords,
              !.result = Some([success |-> TRUE,
                               output |-> Some([keywords |-> keywords,
                                                totalResearched |->
                                                    Len(keywords)]),
                               error |-> Undefined])]

\* keyword-research.ts:81-92  the loop from the seed at idx: blank seeds are
\* passed over, and the service is called with the next one, as given.
RECURSIVE SeoLoopAt(_, _)
SeoLoopAt(r, idx) ==
    IF idx > Len(r.seeds) THEN SeoFinish(r)
    ELSE IF Trim(r.seeds[idx]) = "" THEN SeoLoopAt(r, idx + 1)
    ELSE [r EXCEPT !.phase = "query", !.idx = idx,
                   !.queried = Append(@, r.seeds[idx])]

\* SeedRaised without the try around one seed: the raise reaches the catch
\* of the executor.
SeedRaised_fails(r, o) ==
    SeoFailure([r EXCEPT !.answers = Append(@, o)],
               AdapterCatchMessage(o, "Failed to research keywords"))

\* keyword-research.ts:107-110  catch (kwError): a warning, and the loop
\* goes on with the next seed.
SeedRaised(r, o) ==
    SeoLoopAt([r EXCEPT !.answers = Append(@, o)], r.idx + 1)

\* keyword-research.ts:67-81  the executor up to its first await
SeoStart(r) ==
    IF ~r.hasService
      THEN SeoFailure(r, "DataForSEO service not configured. Please provide context.services.dataForSeo.")
      ELSE SeoLoopAt(r, 1)

\* keyword-research.ts:84-111  the awaited getRelatedKeywords settled with o
SeoStep(r, o) ==
    IF o.kind = "throw"
      THEN SeedRaised(r, o)
      ELSE SeoLoopAt(AddResults([r EXCEPT !.answers = Append(@, o)],
                                o.results),
                     r.idx + 1)

\* An execution not begun: queried holds the seeds the service was called
\* with and answers what those calls came to, in order.
NewSeoRun(seeds, hasService) ==
    [phase |-> "idle", seeds |-> seeds, hasService |-> hasService, idx |-> 0,
     researched |-> << >>, processed |-> {}, queried |-> << >>,
     answers |-> << >>, result |-> Undefined]

\* seo_keyword_research is not being executed.
SeoIdle == seoRun = NewSeoRun(<< >>, FALSE)

-----------------------------------------------------------------------------
(* The pieces of createRetryNode(node).executor. *)

\* The execution context of each call: a caller and the names of the services
\* it supplies.
CallContexts ==
    [c \in Calls |->
        [userId |-> IF c = 1 THEN "user-1" ELSE "user-2",
         services |-> IF c = 1 THEN {"notifications"} ELSE {}]]

\* InvokeArgs handing the wrapped node one retry fewer than the call was given.
InvokeArgs_decrements(inp, ctx) ==
    [input |-> [inp EXCEPT !.maxRetries = @ - 1], context |-> ctx]

\* retry.ts:63  node.executor(input as unknown as TInput, context)
InvokeArgs(inp, ctx) == [input |-> inp, context |-> ctx]

\* retry.ts:60  while (attempt <= input.maxRetries)
LoopCond(att, inp) == att <= inp.maxRetries

\* IsSuccess for a loop that never returns from inside: every result is
\* taken for a failure.
IsSuccess_never(res) == FALSE

\* IsSuccess asking for result.error as well as result.output.
IsSuccess_alsoError(res) ==
    res.success /\ res.output # Undefined /\ res.error # Undefined

\* retry.ts:65  if (result.success && result.output !== undefined)
IsSuccess(res) == res.success /\ res.output # Undefined

\* SuccessResult counting attempts in place of retries.
SuccessResult_countsAttempts(output, att, elapsed) ==
    [success |-> TRUE,
     output |-> Some(Spread(output, [retriesAttempted |-> att + 1,
                                     totalDurationMs |-> elapsed])),
     error |-> Undefined]

\* retry.ts:66-73  the success result
SuccessResult(output, att, elapsed) ==
    [success |-> TRUE,
     output |-> Some(Spread(output, [retriesAttempted |-> att,
                                     totalDurationMs |-> elapsed])),
     error |-> Undefined]

\* retry.ts:77  catch (error): a bare catch clause takes every thrown value
Catches(thrown) == thrown.kind = "throw"

\* CatchError reading error.message of every thrown value: undefined for a
\* number.
CatchError_messageOnly(thrown) ==
    IF thrown.isError THEN Some(thrown.message) ELSE Undefined

\* retry.ts:78  String(error) throws when error is no Error and has no
\* string conversion; the statement stands in the catch clause, outside the
\* try block, so what it throws leaves the executor.
CatchThrows(thrown) == ~thrown.isError /\ "value" \notin DOMAIN thrown

\* retry.ts:78  what String(Object.create(null)) throws: a TypeError
StringError == ThrownError("Cannot convert object to primitive value")

\* retry.ts:78  error instanceof Error ? error.message : String(error), where
\* it has a value
CatchError(thrown) ==
    IF thrown.isError THEN Some(thrown.message) ELSE Some(ToString(thrown.value))

\* RecordError keeping the previous error when the result carries none
\* (lastError = result.error ?? lastError).
RecordError_keepsDefined(prev, outcome) ==
    IF outcome.kind = "return"
      THEN (IF outcome.error = Undefined THEN prev ELSE outcome.error)
      ELSE CatchError(outcome)

\* retry.ts:76 and 78: lastError after a failed attempt; the previous value
\* is overwritten
RecordError(prev, outcome) ==
    IF outcome.kind = "return" THEN outcome.error ELSE CatchError(outcome)

\* ShouldBreak with > in place of >=.
ShouldBreak_strict(att, inp) == att > inp.maxRetries

\* retry.ts:81  if (attempt >= input.maxRetries) break
ShouldBreak(att, inp) == att >= inp.maxRetries

\* ComputeDelay without the Math.min cap.
ComputeDelay_uncapped(inp, att) ==
    OrDefault(inp.initialDelayMs, 1000)
        * Pow(OrDefault(inp.backoffMultiplier, 2), att)

\* retry.ts:83-86  the delay before the next attempt
ComputeDelay(inp, att) ==
    Min(OrDefault(inp.initialDelayMs, 1000)
            * Pow(OrDefault(inp.backoffMultiplier, 2), att),
        OrDefault(inp.maxDelayMs, 30000))

\* retry.ts:89  attempt++
NextAttempt(att) == att + 1

\* ExhaustedResult reporting the number of attempts made, attempt + 1.
ExhaustedResult_countsAttempts(att, err) ==
    [success |-> FALSE,
     output |-> Undefined,
     error |-> Some("Failed after " \o ToString(att + 1)
                    \o " attempts. Last error: " \o TemplateStr(err))]

\* ExhaustedResult carrying the retry metadata as an output.
ExhaustedResult_withMetadata(att, err) ==
    [success |-> FALSE,
     output |-> Some([retriesAttempted |-> att, totalDurationMs |-> 0]),
     error |-> Some("Failed after " \o ToString(att) \o " attempts. Last error: "
                    \o TemplateStr(err))]

\* retry.ts:92-95  the exhaustion result
ExhaustedResult(att, err) ==
    [success |-> FALSE,
     output |-> Undefined,
     error |-> Some("Failed after " \o ToString(att) \o " attempts. Last error: "
                    \o TemplateStr(err))]

-----------------------------------------------------------------------------
(* The state machine. *)

TypeOK ==
    /\ pc \in [Calls -> {"idle", "awaiting", "delaying", "done", "raised"}]
    /\ input \in [Calls -> Inputs]
    /\ attempt \in [Calls -> Nat]
    /\ invocations \in [Calls -> Nat]
    /\ now \in Nat

\* No call has begun; the calls will be given one of the inputs and one of
\* the contexts.
InitCalls(inputs, contexts) ==
    /\ pc = [c \in Calls |-> "idle"]
    /\ input \in inputs
    /\ context \in contexts
    /\ attempt = [c \in Calls |-> 0]
    /\ start = [c \in Calls |-> 0]
    /\ lastError = [c \in Calls |-> Undefined]
    /\ result = [c \in Calls |-> Undefined]
    /\ invocations = [c \in Calls |-> 0]
    /\ passed = [c \in Calls |-> << >>]
    /\ history = [c \in Calls |-> << >>]
    /\ delays = [c \in Calls |-> << >>]
    /\ wake = [c \in Calls |-> 0]
    /\ now = 0

InitWith(inputs) == InitCalls(inputs, {CallContexts})

\* Both calls are given the same input.
SameInput(S) == {[c \in Calls |-> i] : i \in S}

\* No value is being validated.
SchemaIdle ==
    /\ candidate = [node |-> [prompt |-> Str("a sunset"), model |-> Undef,
                              seconds |-> Undef, size |-> Undef],
                    config |-> [maxRetries |-> Undef, initialDelayMs |-> Undef,
                                maxDelayMs |-> Undef, backoffMultiplier |-> Undef]]
    /\ parsed = Undefined

\* createRetryNode(n) has been called.
Wrapped(n) == node = n /\ retryNode = Some(createRetryNode(n))

Init ==
    /\ InitWith(SameInput(Inputs \ {DefaultsInput}))
    /\ SchemaIdle
    /\ AdapterIdle
    /\ SeoIdle
    /\ Wrapped(soraVideoNode)

\* retry.ts:60-63 and 92-95: the loop test with attempt = att, then either
\* the next call of node.executor or the exhaustion result.
EnterLoop(c, att, err) ==
    IF LoopCond(att, input[c])
    THEN /\ pc' = [pc EXCEPT ![c] = "awaiting"]
         /\ invocations' = [invocations EXCEPT ![c] = @ + 1]
         /\ passed' = [passed EXCEPT ![c] =
                          Append(@, InvokeArgs(input[c], context[c]))]
         /\ result' = result
    ELSE /\ pc' = [pc EXCEPT ![c] = "done"]
         /\ invocations' = invocations
         /\ passed' = passed
         /\ result' = [result EXCEPT ![c] = Some(ExhaustedResult(att, err))]

\* Elapsed reading the clock without subtracting the start.
Elapsed_unanchored(nowv, startv) == nowv

\* retry.ts:71  Date.now() - start
Elapsed(nowv, startv) == nowv - startv

\* AttemptOf reading one counter that all calls share.
AttemptOf_shared(c) == attempt[1]

\* retry.ts:56  let attempt: the counter is a local of the call that reads it
AttemptOf(c) == attempt[c]

\* retry.ts:55-63: the executor is called.
ExecutorBegin(c) ==
    /\ retryNode # Undefined
    /\ pc[c] = "idle"
    /\ attempt' = [attempt EXCEPT ![c] = 0]
    /\ start' = [start EXCEPT ![c] = now]
    /\ lastError' = [lastError EXCEPT ![c] = Undefined]
    /\ EnterLoop(c, 0, Undefined)
    /\ UNCHANGED <<input, context, history, delays, wake, now>>
    /\ UNCHANGED <<auxVars, retryNode>>

\* retry.ts:63-88 and 92-95: the awaited node.executor settles with outcome o.
WrappedSettles(c, o) ==
    /\ pc[c] = "awaiting"
    /\ history' = [history EXCEPT ![c] = Append(@, o)]
    /\ IF o.kind = "throw" /\ (~Catches(o) \/ CatchThrows(o))
       THEN \* a thrown value leaves the executor: the call's promise rejects
            /\ pc' = [pc EXCEPT ![c] = "raised"]
            /\ UNCHANGED <<lastError, result, delays, wake>>
       ELSE IF o.kind = "return" /\ IsSuccess(o)
       THEN /\ pc' = [pc EXCEPT ![c] = "done"]
            /\ result' = [result EXCEPT ![c] =
                             Some(SuccessResult(o.output[1], AttemptOf(c),
                                                Elapsed(now, start[c])))]
            /\ UNCHANGED <<lastError, delays, wake>>
       ELSE LET err == RecordError(lastError[c], o) IN
            /\ lastError' = [lastError EXCEPT ![c] = err]
            /\ IF ShouldBreak(AttemptOf(c), input[c])
               THEN /\ pc' = [pc EXCEPT ![c] = "done"]
                    /\ result' = [result EXCEPT ![c] =
                                     Some(ExhaustedResult(AttemptOf(c), err))]
                    /\ UNCHANGED <<delays, wake>>
               ELSE LET delay == ComputeDelay(input[c], AttemptOf(c)) IN
                    /\ pc' = [pc EXCEPT ![c] = "delaying"]
                    /\ delays' = [delays EXCEPT ![c] = Append(@, delay)]
                    /\ wake' = [wake EXCEPT ![c] = now + delay]
                    /\ result' = result
    /\ UNCHANGED <<input, context, attempt, start, invocations, passed, now>>
    /\ UNCHANGED <<auxVars, retryNode>>

\* retry.ts:88 against retry.ts:57, 71: the milliseconds by which Date.now()
\* can read less than a timer's due time when setTimeout resolves it.
TimerEarly == 1

\* TimerFires with the timer's promise not awaited: the loop goes on at once.
TimerFires_notAwaited(c) ==
    /\ pc[c] = "delaying"
    /\ now' = now
    /\ attempt' = [attempt EXCEPT ![c] = @ + 1]
    /\ EnterLoop(c, attempt[c] + 1, lastError[c])
    /\ UNCHANGED <<input, context, start, lastError, history, delays, wake>>
    /\ UNCHANGED <<auxVars, retryNode>>

\* retry.ts:57, 71  Date.now(): the clock moves on, whatever the calls are
\* doing, so that the wrapped executor takes time, another call begins at
\* any time, and a timer resolves after its due time.  The time at which a
\* first call begins is the origin.
TimePasses ==
    /\ \E c \in Calls : pc[c] # "idle"
    /\ now < MaxClock
    /\ now' = now + Quantum
    /\ UNCHANGED <<pc, input, context, attempt, start, lastError, result,
                   invocations, passed, history, delays, wake>>
    /\ UNCHANGED <<auxVars, retryNode>>

\* retry.ts:88 of two calls: setTimeout orders the timers by the event loop's
\* time when they were set, not by Date.now(), so two timers whose due times
\* by Date.now() are up to TimerSkew milliseconds apart resolve in either
\* order.
TimerSkew == 2

\* retry.ts:88-89, then 60-63 or 92-95: the timer of call c resolves.  Timers
\* resolve in the order of their due times, those up to TimerSkew apart in
\* either order.  The timer runs on the event loop's clock and the executor
\* reads Date.now(): when the timer resolves, Date.now() reads the due time,
\* or up to TimerEarly less, when it has not reached the due time yet, and it
\* reads later when it has gone past.
TimerFires(c) ==
    /\ pc[c] = "delaying"
    /\ \A d \in Calls : pc[d] = "delaying" => wake[c] <= wake[d] + TimerSkew
    /\ \E early \in 0..TimerEarly :
          now' = IF wake[c] - early > now THEN wake[c] - early ELSE now
    /\ attempt' = [attempt EXCEPT ![c] = NextAttempt(AttemptOf(c))]
    /\ EnterLoop(c, NextAttempt(AttemptOf(c)), lastError[c])
    /\ UNCHANGED <<input, context, start, lastError, history, delays, wake>>
    /\ UNCHANGED <<auxVars, retryNode>>

\* One decorated call, of any wrapped executor.
Next ==
    \/ ExecutorBegin(1)
    \/ \E o \in Outcomes : WrappedSettles(1, o)
    \/ TimerFires(1)
    \/ TimePasses

\* One decorated call with the default delays.
DefaultsOutcomes ==
    {Returned(TRUE, Some([value |-> 42]), Undefined),
     Returned(FALSE, Undefined, Some("boom")),
     ThrownError("bust")}

InitDefaults ==
    /\ InitWith(SameInput({DefaultsInput}))
    /\ SchemaIdle
    /\ AdapterIdle
    /\ SeoIdle
    /\ Wrapped(soraVideoNode)

NextDefaults ==
    \/ ExecutorBegin(1)
    \/ \E o \in DefaultsOutcomes : WrappedSettles(1, o)
    \/ TimerFires(1)
    \/ TimePasses

SpecDefaults == InitDefaults /\ [][NextDefaults]_vars

Spec == Init /\ [][Next]_vars

-----------------------------------------------------------------------------
(* Two decorated calls with the same input, of wrapped executors that       *)
(* behave alike except that where the first throws, the second may return   *)
(* a failure result carrying the thrown value's text instead.               *)

\* The configurations of the paired calls.
EquivInputs == {i \in GeneralInputs : /\ i.maxRetries <= EquivMaxRetries
                                      /\ i.initialDelayMs = 10
                                      /\ i.maxDelayMs = 25
                                      /\ i.backoffMultiplier = 2}

\* The failure result that stands for a thrown value: its error is the
\* message of a thrown Error, the string conversion of another value.
AsReturnedFailure(o) ==
    IF o.kind = "throw"
      THEN Returned(FALSE, Undefined,
                    Some(IF o.isError THEN o.message ELSE ToString(o.value)))
      ELSE o

\* The second call's wrapped executor settles its k-th invocation as the
\* first call's did, or with the failure result that stands for what the
\* first call's threw.
PairedSettles ==
    /\ pc[2] = "awaiting"
    /\ Len(history[2]) < Len(history[1])
    /\ LET o1 == history[1][Len(history[2]) + 1] IN
       \E o \in {o1, AsReturnedFailure(o1)} : WrappedSettles(2, o)

\* What the first call's wrapped executor does in an invocation: it returns
\* success, throws an Error or throws another value.
EquivOutcomes ==
    {Returned(TRUE, Some([value |-> 42]), Undefined),
     ThrownError("boom"),
     ThrownValue(42)}

InitEquiv ==
    /\ InitWith(SameInput(EquivInputs))
    /\ SchemaIdle
    /\ AdapterIdle
    /\ SeoIdle
    /\ Wrapped(soraVideoNode)

NextEquiv ==
    \/ ExecutorBegin(1)
    \/ \E o \in EquivOutcomes : WrappedSettles(1, o)
    \/ TimerFires(1)
    \/ ExecutorBegin(2)
    \/ PairedSettles
    \/ TimerFires(2)
    \/ TimePasses

SpecEquiv == InitEquiv /\ [][NextEquiv]_vars

-----------------------------------------------------------------------------
(* Validation of a value by the decorated node's inputSchema.  The value is *)
(* the merge of a candidate for the wrapped node's input and a candidate    *)
(* for the retry configuration.                                             *)

InitSchema ==
    /\ InitWith(SameInput(ScenarioInputs))
    /\ candidate \in [node : NodeInputCandidates, config : RetryConfigCandidates]
    /\ Wrapped(soraVideoNode)
    /\ AdapterIdle
    /\ SeoIdle
    /\ parsed = Undefined

\* inputSchema.safeParse(value) on the decorated node
ValidateInput ==
    /\ parsed = Undefined
    /\ parsed' = Some(ParseDecoratedInput(
                          StructuralMerge(candidate.node, candidate.config)))
    /\ UNCHANGED <<candidate, callVars, node, adapterRun, seoRun, retryNode>>

NextSchema == ValidateInput

SpecSchema == InitSchema /\ [][NextSchema]_vars

-----------------------------------------------------------------------------
(* Two concurrent calls of the same decorated node, each with its own input *)
(* and its own outcomes of the wrapped executor, interleaved at every await. *)

ConcMaxRetries == 2

ConcInputs == {i \in GeneralInputs : /\ i.maxRetries <= ConcMaxRetries
                                     /\ i.initialDelayMs = 10
                                     /\ i.maxDelayMs = 25}

ConcOutcomes ==
    {Returned(TRUE, Some([value |-> 42]), Undefined),
     Returned(FALSE, Undefined, Some("boom")),
     ThrownError("bust")}

\* The inputs of the two calls differ: the first has one retry and keeps
\* its delay constant, the second has any number of retries and doubles its
\* delay.
ConcPairs ==
    {f \in [Pair -> ConcInputs] : /\ f[1].maxRetries = 1
                                  /\ f[1].backoffMultiplier = 1
                                  /\ f[2].backoffMultiplier = 2}

InitConc ==
    /\ InitWith({[c \in Calls |-> f[IF c \in Pair THEN c ELSE 1]] :
                    f \in ConcPairs})
    /\ SchemaIdle
    /\ AdapterIdle
    /\ SeoIdle
    /\ Wrapped(soraVideoNode)

NextConc ==
    \/ \E c \in Pair :
          \/ ExecutorBegin(c)
          \/ \E o \in ConcOutcomes : WrappedSettles(c, o)
          \/ TimerFires(c)
    \/ TimePasses

SpecConc == InitConc /\ [][NextConc]_vars

-----------------------------------------------------------------------------
(* One direct execution of the executor of any node of the package, with    *)
(* any subset of the services it looks at and free outcomes of its calls.   *)

\* The services the executor of the node looks at.
ServicesSeen(type) ==
    {s \in ServiceNames : \/ <<s>> = Plan(type).required
                          \/ s = "notifications" /\ Plan(type).notify # "never"
                          \/ s = "analyzedPosts" /\ Plan(type).store}

\* The contexts an executor of the node type is called with: the first
\* context holds any of the services the executor looks at.
AdapterContexts(type) ==
    {[CallContexts EXCEPT ![1].services = services] :
        services \in SUBSET ServicesSeen(type)}

InitAdapters ==
    /\ node \in AdapterNodes
    /\ InitCalls(SameInput(ScenarioInputs), AdapterContexts(node.type))
    /\ SchemaIdle
    /\ retryNode = Undefined
    /\ \E units \in UnitsOf(Plan(node.type)),
          configId \in ConfigIdsOf(Plan(node.type)),
          userKeywords \in UserKeywordsOf(node.type) :
          adapterRun = NewRun(units, configId, userKeywords,
                              context[1].services)
    /\ SeoIdle

\* node.executor(input, context) is called.
AdapterBegin ==
    /\ adapterRun.phase = "idle"
    /\ adapterRun' = AdapterStart(adapterRun, Plan(node.type))
    /\ UNCHANGED <<callVars, schemaVars, node, seoRun, retryNode>>

\* What the service call the executor awaits can do.
AwaitedOutcomes ==
    IF adapterRun.phase \in {"main", "body", "loop", "store", "notify"}
      THEN ServiceOutcomes(node.type,
                           adapterRun.log[Len(adapterRun.log)].method)
      ELSE {}

\* The service call the executor awaits settles with outcome o.
ServiceSettles(o) ==
    /\ adapterRun.phase \in {"main", "body", "loop", "store", "notify"}
    /\ o \in AwaitedOutcomes
    /\ adapterRun' = AdapterStep(adapterRun, Plan(node.type), o)
    /\ UNCHANGED <<callVars, schemaVars, node, seoRun, retryNode>>

NextAdapters ==
    \/ AdapterBegin
    \/ \E o \in AwaitedOutcomes : ServiceSettles(o)

SpecAdapters == InitAdapters /\ [][NextAdapters]_vars

-----------------------------------------------------------------------------
(* The executor called directly, without validation of its input, with      *)
(* retry parameters outside the bounds of RetryConfigSchema.                *)

DirectInputs ==
    [maxRetries : {0, 2, 12},
     initialDelayMs : {10},
     maxDelayMs : {25, 1000},
     backoffMultiplier : {0, 1, 3}]

DirectOutcomes ==
    {Returned(TRUE, Some([value |-> 42]), Undefined),
     Returned(FALSE, Undefined, Some("boom"))}

InitDirect ==
    /\ InitWith(SameInput(DirectInputs))
    /\ SchemaIdle
    /\ AdapterIdle
    /\ SeoIdle
    /\ Wrapped(soraVideoNode)

NextDirect ==
    \/ ExecutorBegin(1)
    \/ \E o \in DirectOutcomes : WrappedSettles(1, o)
    \/ TimerFires(1)
    \/ TimePasses

SpecDirect == InitDirect /\ [][NextDirect]_vars

-----------------------------------------------------------------------------
(* Termination.  Two calls of the decorated node run side by side.  The     *)
(* event loop runs every callback that is ready: a timer that is due fires, *)
(* and the wrapped invocations of call 1 settle.  Nothing is assumed of the *)
(* wrapped invocations of call 2, which may stay pending for ever.          *)

LiveMaxRetries == 2

LiveInputs == {i \in GeneralInputs : /\ i.maxRetries <= LiveMaxRetries
                                     /\ i.initialDelayMs = 10
                                     /\ i.maxDelayMs = 25
                                     /\ i.backoffMultiplier = 2}

LiveOutcomes ==
    {Returned(TRUE, Some([value |-> 42]), Undefined),
     Returned(FALSE, Undefined, Some("boom")),
     ThrownValue(42),
     ThrownObject}

InitLive ==
    /\ InitWith(SameInput(LiveInputs))
    /\ SchemaIdle
    /\ AdapterIdle
    /\ SeoIdle
    /\ Wrapped(soraVideoNode)

NextLive ==
    \/ \E c \in Pair :
          \/ ExecutorBegin(c)
          \/ \E o \in LiveOutcomes : WrappedSettles(c, o)
          \/ TimerFires(c)
    \/ TimePasses

SpecLive ==
    /\ InitLive
    /\ [][NextLive]_vars
    /\ WF_vars(\E o \in LiveOutcomes : WrappedSettles(1, o))
    /\ \A c \in Pair : WF_vars(TimerFires(c))

-----------------------------------------------------------------------------
(* Wrapping a node definition and executing the wrapper.  The node is any   *)
(* of the package's definitions; the decorated executor is then called      *)
(* twice, with maxRetries = 1, against free outcomes of the wrapped node.   *)

WrapInputs == {i \in GeneralInputs : /\ i.maxRetries = 1
                                     /\ i.initialDelayMs = 10
                                     /\ i.maxDelayMs = 25
                                     /\ i.backoffMultiplier = 2}

\* What the wrapped executor does in an invocation, in this specification: it
\* returns success, returns failure, or throws.
WrapOutcomes ==
    {Returned(TRUE, Some([value |-> 42]), Undefined),
     Returned(FALSE, Undefined, Some("boom")),
     ThrownError("bust")}

InitWrap ==
    /\ InitWith(SameInput(WrapInputs))
    /\ SchemaIdle
    /\ AdapterIdle
    /\ SeoIdle
    /\ node \in AdapterNodes
    /\ retryNode = Undefined

\* CreateRetryNode writing the derived fields into the node it was given.
CreateRetryNode_inPlace ==
    /\ retryNode = Undefined
    /\ node' = createRetryNode(node)
    /\ retryNode' = Some(node')
    /\ UNCHANGED <<callVars, schemaVars, adapterRun, seoRun>>

\* retry.ts:37-53  const retryNode = createRetryNode(node)
CreateRetryNode ==
    /\ retryNode = Undefined
    /\ retryNode' = Some(createRetryNode(node))
    /\ UNCHANGED <<callVars, auxVars>>

NextWrap ==
    \/ CreateRetryNode
    \/ \E c \in Pair :
          \/ ExecutorBegin(c)
          \/ \E o \in WrapOutcomes : WrappedSettles(c, o)
          \/ TimerFires(c)
    \/ TimePasses

SpecWrap == InitWrap /\ [][NextWrap]_vars

-----------------------------------------------------------------------------
(* A wrapper wrapped a second time: createRetryNode(createRetryNode(node)). *)
(* Call 1 is the call of the outer executor.  The executor it wraps is the  *)
(* inner wrapper's, so its k-th invocation is call 1+k, made with the       *)
(* arguments the outer executor passes, and settles with what call 1+k      *)
(* returns.  The innermost executor always fails.                           *)

ChainInputs == {i \in GeneralInputs : /\ i.maxRetries <= ChainMaxRetries
                                      /\ i.initialDelayMs = 10
                                      /\ i.maxDelayMs = 25
                                      /\ i.backoffMultiplier = 2}

\* What the innermost executor does in an invocation: it returns a failure,
\* or throws a value without a string conversion.
ChainOutcomes ==
    {Returned(FALSE, Undefined, Some("boom")), ThrownObject}

\* An assignment of x to the outer call and of y to every call of the inner
\* executor.
OuterInner(x, y) == [c \in Calls |-> IF c = 1 THEN x ELSE y]

\* The input and the context of a call are bound when the call is made: at
\* the start the outer call has any of them, and the calls of the inner
\* executor have any of them, the same or another.
InitChain ==
    /\ pc = [c \in Calls |-> "idle"]
    /\ input \in {OuterInner(i, j) : i, j \in ChainInputs}
    /\ context \in {OuterInner(CallContexts[a], CallContexts[b]) : a, b \in Pair}
    /\ attempt = [c \in Calls |-> 0]
    /\ start = [c \in Calls |-> 0]
    /\ lastError = [c \in Calls |-> Undefined]
    /\ result = [c \in Calls |-> Undefined]
    /\ invocations = [c \in Calls |-> 0]
    /\ passed = [c \in Calls |-> << >>]
    /\ history = [c \in Calls |-> << >>]
    /\ delays = [c \in Calls |-> << >>]
    /\ wake = [c \in Calls |-> 0]
    /\ now = 0
    /\ SchemaIdle
    /\ AdapterIdle
    /\ SeoIdle
    /\ node = createRetryNode(soraVideoNode)
    /\ retryNode = Some(createRetryNode(node))

\* retry.ts:63  the arguments of the outer executor's k-th invocation of the
\* executor it wraps.
ChainArgs(k) == passed[1][k]

\* retry.ts:63, then 54-63 of the inner wrapper: the outer executor's k-th
\* invocation is the call 1+k of the inner executor.
InnerBegins(k) ==
    /\ pc[1] = "awaiting"
    /\ invocations[1] = k
    /\ [input |-> input[1 + k], context |-> context[1 + k]] = ChainArgs(k)
    /\ ExecutorBegin(1 + k)

\* retry.ts:63-65  the inner executor's call 1+k has returned, and the outer
\* executor's await of its k-th invocation resolves with the result.
InnerReturns(k) ==
    /\ invocations[1] = k
    /\ pc[1 + k] = "done"
    /\ result[1 + k] # Undefined
    /\ LET r == result[1 + k][1] IN
       WrappedSettles(1, Returned(r.success, r.output, r.error))

\* retry.ts:63 and 77  the inner executor's call 1+k was left by what
\* retry.ts:78 threw, and the outer executor's await of its k-th invocation
\* rejects with it.
InnerRaises(k) ==
    /\ invocations[1] = k
    /\ pc[1 + k] = "raised"
    /\ WrappedSettles(1, StringError)

NextChain ==
    \/ ExecutorBegin(1)
    \/ \E k \in 1..(ChainMaxRetries + 1) :
          \/ InnerBegins(k)
          \/ \E o \in ChainOutcomes : WrappedSettles(1 + k, o)
          \/ InnerReturns(k)
          \/ InnerRaises(k)
    \/ \E c \in Calls : TimerFires(c)
    \/ TimePasses

SpecChain == InitChain /\ [][NextChain]_vars

-----------------------------------------------------------------------------
(* A retry wrapper around an adapter that notifies: call 1 of               *)
(* createRetryNode(node).executor, whose every invocation of node.executor  *)
(* is an execution of the adapter with the input and the context of the     *)
(* call.                                                                     *)

\* The nodes whose executor calls context.services.notifications.send.
NotifyingNodes ==
    {twitterMonitorNode, linkedinMonitorNode, redditMonitorNode,
     socialKeywordGeneratorNode, socialAiAnalyzeNode}


RerunInputs == {i \in GeneralInputs : /\ i.maxRetries = 1
                                      /\ i.initialDelayMs = 10
                                      /\ i.maxDelayMs = 25
                                      /\ i.backoffMultiplier = 2}

InitRerun ==
    /\ node \in NotifyingNodes
    /\ InitCalls(SameInput(RerunInputs), AdapterContexts(node.type))
    /\ SchemaIdle
    /\ retryNode = Some(createRetryNode(node))
    /\ \E units \in UnitsOf(Plan(node.type)),
          configId \in ConfigIdsOf(Plan(node.type)),
          userKeywords \in UserKeywordsOf(node.type) :
          adapterRun = NewRun(units, configId, userKeywords,
                              context[1].services)
    /\ SeoIdle

\* retry.ts:63  node.executor(input, context): the adapter's executor begins
\* once more, with the input and the context the wrapper passes to it.
NodeInvoked ==
    /\ pc[1] = "awaiting"
    /\ adapterRun.phase \in {"idle", "done"}
    /\ adapterRun.runs < invocations[1]
    /\ adapterRun' =
          AdapterStart([NewRun(adapterRun.units, adapterRun.configId,
                               adapterRun.userKeywords,
                               passed[1][invocations[1]].context.services)
                          EXCEPT !.log = adapterRun.log,
                                 !.runs = adapterRun.runs + 1],
                       Plan(node.type))
    /\ UNCHANGED <<callVars, schemaVars, node, seoRun, retryNode>>

\* retry.ts:63-65  the adapter's executor has returned, and the wrapper's
\* await resolves with its result.
NodeReturns ==
    /\ adapterRun.phase = "done"
    /\ adapterRun.runs = invocations[1]
    /\ LET r == adapterRun.result[1] IN
       WrappedSettles(1, Returned(r.success, r.output, r.error))

NextRerun ==
    \/ ExecutorBegin(1)
    \/ NodeInvoked
    \/ \E o \in AwaitedOutcomes : ServiceSettles(o)
    \/ NodeReturns
    \/ TimerFires(1)
    \/ TimePasses

SpecRerun == InitRerun /\ [][NextRerun]_vars

-----------------------------------------------------------------------------
(* One execution of seo_keyword_research, seed by seed. *)

InitSeo ==
    /\ node = seoKeywordResearchNode
    /\ InitCalls(SameInput(ScenarioInputs), AdapterContexts(node.type))
    /\ SchemaIdle
    /\ AdapterIdle
    /\ retryNode = Undefined
    /\ \E seeds \in UNION {[1..n -> SeedStrings] : n \in 0..MaxSeeds} :
          seoRun = NewSeoRun(seeds, "dataForSeo" \in context[1].services)

\* seoKeywordResearchNode.executor(input, context) is called.
SeoBegin ==
    /\ seoRun.phase = "idle"
    /\ seoRun' = SeoStart(seoRun)
    /\ UNCHANGED <<callVars, schemaVars, node, adapterRun, retryNode>>

\* The awaited getRelatedKeywords settles with outcome o.
SeoSettles(o) ==
    /\ seoRun.phase = "query"
    /\ seoRun' = SeoStep(seoRun, o)
    /\ UNCHANGED <<callVars, schemaVars, node, adapterRun, retryNode>>

NextSeo ==
    \/ SeoBegin
    \/ \E o \in SeoOutcomes : SeoSettles(o)

SpecSeo == InitSeo /\ [][NextSeo]_vars

-----------------------------------------------------------------------------
(* Vocabulary of the properties.  These definitions read the outcomes the   *)
(* wrapped executor produced; they do not use the executor's own tests.     *)

Last(s) == s[Len(s)]

\* The attempt returned success with a defined output.
OutcomeSucceeded(o) == o.kind = "return" /\ o.success /\ o.output # << >>

\* The first n attempts of h all failed: each returned a failure, returned
\* success without an output, or threw.
AllFailed(h, n) == \A k \in 1..n : ~OutcomeSucceeded(h[k])

\* The error text of a failed attempt: the error field of a returned result,
\* the message of a thrown Error, the string conversion of another thrown
\* value, which Object.create(null) has not.
ErrorTextOf(o) ==
    IF o.kind = "return"
      THEN (IF o.error = << >> THEN "undefined" ELSE o.error[1])
      ELSE IF o.isError THEN o.message
      ELSE IF CatchThrows(o) THEN ""
      ELSE ToString(o.value)

\* "Failed after n attempts. Last error: "
CountPrefix(n) == "Failed after " \o ToString(n) \o " attempts. Last error: "

\* The call has returned a result.
HasReturned(c) == pc[c] = "done" /\ result[c] # << >>

-----------------------------------------------------------------------------
\* C1: whenever the wrapped executor has failed on attempts 0..i-1 and then
\* succeeded with a defined output on attempt i (i <= maxRetries, maxRetries
\* within 1..10), the decorated call has returned success with
\* retriesAttempted = i after exactly i+1 invocations of the wrapped executor.
C1_EventualSuccess ==
    \A c \in Calls :
        (/\ RetryConfigSchema(input[c])
         /\ history[c] # << >>
         /\ Len(history[c]) - 1 <= input[c].maxRetries
         /\ OutcomeSucceeded(Last(history[c]))
         /\ AllFailed(history[c], Len(history[c]) - 1))
        => /\ HasReturned(c)
           /\ result[c][1].success
           /\ result[c][1].output # << >>
           /\ result[c][1].output[1].retriesAttempted = Len(history[c]) - 1
           /\ invocations[c] = Len(history[c])

\* C1's case: success on the last permitted attempt, i = maxRetries = 3.
C1_Witness ==
    /\ input[1].maxRetries = 3
    /\ Len(history[1]) = 4
    /\ AllFailed(history[1], 3)
    /\ OutcomeSucceeded(history[1][4])
    /\ pc[1] = "done"
    /\ result[1][1].output[1].retriesAttempted = 3

\* C2: when the wrapped executor has failed on every attempt 0..maxRetries, the
\* decorated call has returned a failure whose error string is an attempt count
\* followed by the error text of the last attempt, and is not that of an
\* earlier attempt with a different text.
C2_Exhaustion ==
    \A c \in Calls :
        (/\ Len(history[c]) = input[c].maxRetries + 1
         /\ AllFailed(history[c], Len(history[c])))
        => /\ HasReturned(c)
           /\ ~result[c][1].success
           /\ result[c][1].error # << >>
           /\ \E n \in 0..(input[c].maxRetries + 1) :
                 result[c][1].error[1]
                     = CountPrefix(n) \o ErrorTextOf(Last(history[c]))
           /\ \A k \in 1..(Len(history[c]) - 1) :
                 ErrorTextOf(history[c][k]) # ErrorTextOf(Last(history[c]))
                 => \A n \in 0..(input[c].maxRetries + 1) :
                       result[c][1].error[1]
                           # CountPrefix(n) \o ErrorTextOf(history[c][k])

C4_NeverRaises ==
    \A c \in Calls :
        /\ pc[c] # "raised"
        /\ pc[c] = "done" <=> result[c] # << >>
        /\ pc[c] = "done" => result[c][1].success \in BOOLEAN
        /\ (history[c] # << >> /\ Last(history[c]).kind = "throw")
               => pc[c] \in {"delaying", "awaiting", "done"}

\* C5: a call that returned a failure reports exactly
\* "Failed after N attempts. Last error: E" with N = input.maxRetries, one
\* less than the invocations made, and E the last recorded error; with
\* maxRetries = 3 and a wrapped executor that always fails with "boom" there
\* are 4 invocations and the error is
\* "Failed after 3 attempts. Last error: boom".
C5_ExhaustionMessage ==
    \A c \in Calls :
        /\ (HasReturned(c) /\ ~result[c][1].success)
               => /\ result[c][1].error
                       = <<"Failed after " \o ToString(input[c].maxRetries)
                           \o " attempts. Last error: "
                           \o (IF lastError[c] = << >> THEN "undefined"
                                                     ELSE lastError[c][1])>>
                  /\ invocations[c] = input[c].maxRetries + 1
        /\ (/\ pc[c] = "done"
            /\ input[c].maxRetries = 3
            /\ \A k \in 1..Len(history[c]) :
                  history[c][k] = Returned(FALSE, << >>, <<"boom">>))
               => /\ invocations[c] = 4
                  /\ result[c][1]
                       = [success |-> FALSE, output |-> << >>,
                          error |-> <<"Failed after 3 attempts. Last error: boom">>]

\* C5's case: the "boom" scenario has run to its end.
C5_Witness ==
    /\ pc[1] = "done"
    /\ input[1] = [maxRetries |-> 3, initialDelayMs |-> 10, maxDelayMs |-> 1000,
                   backoffMultiplier |-> 2]
    /\ history[1] = [k \in 1..4 |-> Returned(FALSE, << >>, <<"boom">>)]
    /\ delays[1] = <<10, 20, 40>>

\* C6: for every configuration the schema admits, zeros included, the delay
\* waited before retry attempt k is
\* min(initialDelayMs * backoffMultiplier^(k-1), maxDelayMs).
C6_DelayFormula ==
    \A c \in Calls :
        RetryConfigSchema(input[c])
        => \A k \in 1..Len(delays[c]) :
              delays[c][k]
                  = Min(input[c].initialDelayMs
                            * Pow(input[c].backoffMultiplier, k - 1),
                        input[c].maxDelayMs)

\* C7: with initialDelayMs = 1000, backoffMultiplier = 2 and maxDelayMs =
\* 30000 the delays waited before retry attempts 1..6 are 1000, 2000, 4000,
\* 8000, 16000 and 30000, in that order.
C7_DefaultDelays ==
    \A c \in Calls :
        (/\ input[c].initialDelayMs = 1000
         /\ input[c].backoffMultiplier = 2
         /\ input[c].maxDelayMs = 30000)
        => \A k \in 1..Len(delays[c]) :
              k <= 6 => delays[c][k]
                           = <<1000, 2000, 4000, 8000, 16000, 30000>>[k]

\* C7's case: six failures in a row, six delays waited.
C7_Witness ==
    /\ input[1].initialDelayMs = 1000
    /\ input[1].backoffMultiplier = 2
    /\ input[1].maxDelayMs = 30000
    /\ AllFailed(history[1], Len(history[1]))
    /\ delays[1] = <<1000, 2000, 4000, 8000, 16000, 30000>>
    /\ pc[1] = "awaiting"
    /\ attempt[1] = 6

\* C8: for every configuration the schema admits, maxDelayMs = 0 included, no
\* delay waited exceeds input.maxDelayMs.
C8_DelayCap ==
    \A c \in Calls :
        RetryConfigSchema(input[c])
        => \A k \in 1..Len(delays[c]) : delays[c][k] <= input[c].maxDelayMs

\* C9: when the wrapped executor succeeds with a defined output on its first
\* call, the decorated call has returned success with retriesAttempted = 0
\* after exactly one invocation, without having handed any delay to a timer,
\* whatever maxRetries is, and totalDurationMs is within the time that has
\* passed since the call began.
C9_PassThrough ==
    \A c \in Calls :
        (history[c] # << >> /\ OutcomeSucceeded(history[c][1]))
        => /\ HasReturned(c)
           /\ result[c][1].success
           /\ result[c][1].output # << >>
           /\ result[c][1].output[1].retriesAttempted = 0
           /\ invocations[c] = 1
           /\ Len(history[c]) = 1
           /\ delays[c] = << >>
           /\ wake[c] = 0
           /\ result[c][1].output[1].totalDurationMs \in 0..(now - start[c])

\* C9's case: maxRetries = 1 and the first call succeeded.
C9_Witness ==
    /\ input[1].maxRetries = 1
    /\ Len(history[1]) = 1
    /\ OutcomeSucceeded(history[1][1])
    /\ pc[1] = "done"
    /\ result[1][1].output[1].value = 42

\* A result without its clock reading, totalDurationMs.
SansClock(r) ==
    IF r = << >> \/ r[1].output = << >> THEN r
    ELSE <<[r[1] EXCEPT !.output =
               <<[f \in (DOMAIN r[1].output[1]) \ {"totalDurationMs"}
                     |-> r[1].output[1][f]]>>]>>

\* C10: two calls with the same input, the second's wrapped executor returning
\* a failure with error m where the first's throws a value with text m, agree
\* after the same number of settled attempts on the delays waited and on the
\* recorded error, finish together, and then agree on the number of
\* invocations and on the result (its clock reading apart).
C10_RaisedEquivalence ==
    Len(history[1]) = Len(history[2])
    => /\ delays[1] = delays[2]
       /\ lastError[1] = lastError[2]
       /\ pc[1] = "done" <=> pc[2] = "done"
       /\ SansClock(result[1]) = SansClock(result[2])
       /\ pc[1] = "done" => invocations[1] = invocations[2]

\* C10's case: the first call's executor threw a number and then an Error, the
\* second's returned failures in their place, and both calls have returned.
C10_Witness ==
    /\ pc[1] = "done" /\ pc[2] = "done"
    /\ Len(history[1]) >= 2
    /\ history[1][1] = ThrownValue(42)
    /\ history[2][1] = Returned(FALSE, << >>, <<"42">>)
    /\ history[1][2] = ThrownError("boom")
    /\ history[2][2] = Returned(FALSE, << >>, <<"boom">>)
    /\ ~result[1][1].success
    /\ delays[1] # << >>

\* C11: within one decorated call the invocations of the wrapped executor are
\* strictly sequential: at most one is in flight, and one is in flight exactly
\* while the call awaits it; when invocation k+1 is in flight, invocation k has
\* settled, its delay has been handed to the timer, and that timer has
\* resolved: the clock reads its due time, or up to TimerEarly less, or more.
C11_Sequential ==
    \A c \in Calls :
        LET inFlight == invocations[c] - Len(history[c]) IN
        /\ inFlight \in {0, 1}
        /\ inFlight = 1 <=> pc[c] = "awaiting"
        /\ pc[c] = "awaiting"
              => /\ Len(delays[c]) = Len(history[c])
                 /\ delays[c] # << >> => now >= wake[c] - TimerEarly
        /\ pc[c] = "delaying" => Len(delays[c]) = invocations[c]

\* C11's case: the third invocation is in flight after two failures and two
\* delays of more than 0 ms.
C11_Witness ==
    /\ pc[1] = "awaiting"
    /\ invocations[1] = 3
    /\ Len(history[1]) = 2
    /\ delays[1] = <<10, 20>>
    /\ now = 30

\* C12: every invocation of the wrapped executor made by a decorated call
\* received the input and the execution context the call itself was given.
C12_SameArguments ==
    \A c \in Calls :
        /\ Len(passed[c]) = invocations[c]
        /\ \A k \in 1..Len(passed[c]) :
              /\ passed[c][k].input = input[c]
              /\ passed[c][k].context = context[c]

\* C12's case: three invocations, two of them retries.
C12_Witness ==
    /\ Len(passed[1]) = 3
    /\ Len(history[1]) = 2
    /\ passed[1][3] = [input |-> input[1], context |-> CallContexts[1]]

\* The names of the retry metadata (RetryMetadataSchema).
MetadataFields == {"retriesAttempted", "totalDurationMs"}

\* C13, as claimed: on success the decorated output holds every field of the
\* wrapped node's output with the value the wrapped node returned, plus
\* retriesAttempted and totalDurationMs, also when the wrapped output has a
\* field named like the metadata.
C13_OutputFields ==
    \A c \in Calls :
        (HasReturned(c) /\ result[c][1].success)
        => LET w == Last(history[c]).output[1]
               out == result[c][1].output[1] IN
           /\ MetadataFields \subseteq DOMAIN out
           /\ \A f \in DOMAIN w : f \in DOMAIN out /\ out[f] = w[f]

\* C13, amended: on success the decorated output holds every field of the
\* wrapped output that is not named like the metadata with the value the
\* wrapped node returned, and retriesAttempted and totalDurationMs hold the
\* decorator's own values (the attempts before the successful one, and a
\* time within what has passed since the call began), which replace a
\* wrapped field of the same name.
C13_OutputFieldsAmended ==
    \A c \in Calls :
        (HasReturned(c) /\ result[c][1].success)
        => LET w == Last(history[c]).output[1]
               out == result[c][1].output[1] IN
           /\ DOMAIN out = (DOMAIN w) \cup MetadataFields
           /\ \A f \in (DOMAIN w) \ MetadataFields : out[f] = w[f]
           /\ out.retriesAttempted = Len(history[c]) - 1
           /\ out.totalDurationMs \in 0..(now - start[c])

\* C13's case: the wrapped node succeeded on its third attempt with an output
\* that has a retriesAttempted field of its own.
C13_Witness ==
    /\ pc[1] = "done"
    /\ Len(history[1]) = 3
    /\ Last(history[1]) = Returned(TRUE, <<[value |-> 42, retriesAttempted |-> 7]>>, << >>)
    /\ result[1][1].output[1].value = 42
    /\ result[1][1].output[1].retriesAttempted = 2

\* The value is valid under the wrapped node's input shape: a string prompt,
\* and model, seconds and size absent or among the listed values.
ValidNodeInput(v) ==
    /\ v.prompt.t = "string"
    /\ v.model \in {Undef, Str("sora-2"), Str("sora-2-pro")}
    /\ v.seconds \in {Undef, Num(4), Num(8), Num(12)}
    /\ v.size \in {Undef, Str("720x1280"), Str("1280x720"), Str("1024x1792"),
                   Str("1792x1024")}

\* The number field is absent or a number of at least lo.
AbsentOrAtLeast(x, lo) == x.t = "undefined" \/ (x.t = "number" /\ x.n >= lo)

\* The value is a valid RetryConfig: maxRetries absent or in 1..10,
\* initialDelayMs and maxDelayMs absent or >= 0, backoffMultiplier absent or
\* >= 1.
ValidRetryConfig(v) ==
    /\ AbsentOrAtLeast(v.maxRetries, 1)
    /\ v.maxRetries.t = "number" => v.maxRetries.n <= 10
    /\ AbsentOrAtLeast(v.initialDelayMs, 0)
    /\ AbsentOrAtLeast(v.maxDelayMs, 0)
    /\ AbsentOrAtLeast(v.backoffMultiplier, 1)

\* C14: the input shape of createRetryNode(node) accepts the merge of a value
\* valid under node.inputSchema with a valid RetryConfig value, keeping the
\* fields given, and rejects the merge when either part violates its shape,
\* a maxRetries outside 1..10 included.
C14_InputIntersection ==
    parsed # << >>
    => /\ parsed[1].ok <=> (ValidNodeInput(candidate.node)
                            /\ ValidRetryConfig(candidate.config))
       /\ parsed[1].ok
             => /\ parsed[1].value.prompt = candidate.node.prompt
                /\ \A f \in DOMAIN candidate.config :
                      candidate.config[f] # Undef
                      => parsed[1].value[f] = candidate.config[f]
       /\ candidate.config.maxRetries \in {Num(0), Num(11)} => ~parsed[1].ok

\* C14's case: a valid node input merged with a valid configuration at the
\* upper bound of maxRetries has been accepted.
C14_Witness ==
    /\ parsed # << >>
    /\ parsed[1].ok
    /\ candidate.node.prompt = Str("a sunset")
    /\ candidate.config.maxRetries = Num(10)
    /\ candidate.config.initialDelayMs = Num(0)
    /\ parsed[1].value.backoffMultiplier = Num(2)

\* C15: every result returned by the decorated executor populates exactly one
\* variant: success with an output that carries the retry metadata and no
\* error, or failure with an error string and no output, so that the retry
\* metadata never appears on a failure result.
C15_OneVariant ==
    \A c \in Calls :
        HasReturned(c)
        => LET r == result[c][1] IN
           \/ /\ r.success
              /\ r.output # << >>
              /\ MetadataFields \subseteq DOMAIN r.output[1]
              /\ r.error = << >>
           \/ /\ ~r.success
              /\ r.output = << >>
              /\ r.error # << >>
              /\ \E e \in ErrorTexts \cup {"undefined", "42"} :
                    r.error[1] = CountPrefix(input[c].maxRetries) \o e

\* C15's case: the last attempt returned success without an output, which
\* is neither variant, and the decorated call returned a failure.
C15_Witness ==
    /\ HasReturned(1)
    /\ Last(history[1]) = Returned(TRUE, << >>, << >>)
    /\ Len(history[1]) = input[1].maxRetries + 1
    /\ ~result[1][1].success
    /\ result[1][1].output = << >>

\* C16: for every node, createRetryNode(node) has type = node.type followed by
\* "_with_retry", name = node.name followed by " (Retry)", description =
\* "Retries execution on failure. " followed by node.description, and the
\* category and capabilities of node.
C16_Metadata ==
    retryNode # << >>
    => LET r == retryNode[1] IN
       /\ r.type = node.type \o "_with_retry"
       /\ r.name = node.name \o " (Retry)"
       /\ r.description = "Retries execution on failure. " \o node.description
       /\ r.category = node.category
       /\ r.capabilities = node.capabilities
       /\ node.type = "twitter_monitor"
             => /\ r.type = "twitter_monitor_with_retry"
                /\ r.name = "Twitter Monitor (Retry)"
                /\ r.description = "Retries execution on failure. Search Twitter/X for posts matching keywords"
                /\ r.category = "integration"
                /\ r.capabilities = [supportsRerun |-> TRUE]

\* C16's case: the node with three capabilities has been wrapped.
C16_Witness ==
    /\ node = searchContactsNode
    /\ retryNode # << >>
    /\ retryNode[1].type = "search_contacts_with_retry"
    /\ retryNode[1].capabilities.supportsEnrichment
    /\ retryNode[1].capabilities.supportsBulkActions

\* C17: createRetryNode(node) produces a new node definition and no step,
\* the wrapping or a step of an execution of the wrapper, changes the wrapped
\* node: every field of it keeps the value it had.
C17_NodeUnchanged ==
    [][/\ node' = node
       /\ retryNode' # << >> => retryNode'[1] # node']_vars

\* C17's case: the node has been wrapped and the wrapper executed twice, once
\* to success and once to exhaustion, and the node is one of the package's.
C17_Witness ==
    /\ retryNode # << >>
    /\ node = socialAiAnalyzeNode
    /\ HasReturned(1) /\ result[1][1].success
    /\ HasReturned(2) /\ ~result[2][1].success

\* The error a failed attempt leaves behind: the error field of a returned
\* result, which may be undefined, or the text of what was thrown.
ErrorLeftBy(o) == IF o.kind = "return" THEN o.error ELSE <<ErrorTextOf(o)>>

\* What a call with input inp shows, run alone, once its wrapped executor has
\* produced the outcomes h and the call stands at position p: the attempt
\* counter, the last error, the delays waited or being waited, and the result
\* without its clock reading.
AloneView(inp, h, p) ==
    LET n == Len(h)
        succeeded == n > 0 /\ OutcomeSucceeded(h[n])
        failures == IF succeeded THEN n - 1 ELSE n
    IN [attempt |-> IF p = "awaiting" THEN n ELSE IF n = 0 THEN 0 ELSE n - 1,
        lastError |-> IF failures = 0 THEN << >> ELSE ErrorLeftBy(h[failures]),
        delays |-> [k \in 1..(IF p = "done" /\ ~succeeded
                                 THEN failures - 1 ELSE failures)
                       |-> Min(inp.initialDelayMs
                                   * Pow(inp.backoffMultiplier, k - 1),
                               inp.maxDelayMs)],
        result |-> IF p # "done" THEN << >>
                   ELSE IF succeeded
                   THEN <<[success |-> TRUE,
                           output |-> <<[value |-> h[n].output[1].value,
                                         retriesAttempted |-> n - 1]>>,
                           error |-> << >>]>>
                   ELSE <<[success |-> FALSE, output |-> << >>,
                           error |-> <<CountPrefix(inp.maxRetries)
                                        \o ErrorTextOf(h[n])>>]>>]

\* C18: concurrent invocations of the same retry-wrapped node are independent.
\* Under every interleaving of two decorated calls, each call's attempt
\* counter, last error, sequence of delays and final result (its clock reading
\* apart) are those the call shows when run alone with its own input and the
\* outcomes of its own wrapped invocations: nothing of the other call enters.
C18_Independence ==
    \A c \in Calls :
        pc[c] \in {"awaiting", "delaying", "done"}
        => LET v == AloneView(input[c], history[c], pc[c]) IN
           /\ attempt[c] = v.attempt
           /\ lastError[c] = v.lastError
           /\ delays[c] = v.delays
           /\ SansClock(result[c]) = v.result
           /\ invocations[c] = IF pc[c] = "awaiting" THEN Len(history[c]) + 1
                                                     ELSE Len(history[c])

\* C18's case: the two calls, with different inputs, ran interleaved (the
\* second began when the first timer of the first had resolved, and the
\* first finished while the second was waiting); the first was exhausted
\* after its one delay and the second succeeded on its second retry.
C18_Witness ==
    /\ input[1].maxRetries = 1 /\ input[2].maxRetries = 2
    /\ input[1].backoffMultiplier = 1 /\ input[2].backoffMultiplier = 2
    /\ HasReturned(1) /\ HasReturned(2)
    /\ ~result[1][1].success
    /\ result[2][1].success
    /\ delays[1] = <<10>>
    /\ delays[2] = <<10, 20>>
    /\ start[2] = 10
    /\ result[2][1].output[1].totalDurationMs = 30

\* The sum of the numbers of a sequence.
RECURSIVE SumSeq(_)
SumSeq(s) == IF s = << >> THEN 0 ELSE s[1] + SumSeq(Tail(s))

\* C19 as stated: at the step in which a call returns success,
\* totalDurationMs is the clock's reading less its reading when the call
\* began; the clock never goes back; and the totalDurationMs of a returned
\* success is >= 0 and >= the sum of the delays the call waited.  A call
\* whose wrapped executor failed twice and then succeeded with {value: 42}
\* returned success with value 42, retriesAttempted 2 and totalDurationMs at
\* least the sum of the two delays.
C19_AtLeastDelays ==
    [][/\ now' >= now
       /\ \A c \in Calls :
             (HasReturned(c)' /\ result[c]'[1].success)
             => LET out == result[c]'[1].output[1] IN
                /\ ~HasReturned(c) => out.totalDurationMs = now' - start[c]'
                /\ out.totalDurationMs >= 0
                /\ out.totalDurationMs >= SumSeq(delays[c]')
                /\ (/\ Len(history[c]') = 3
                    /\ AllFailed(history[c]', 2)
                    /\ history[c]'[3].output = <<[value |-> 42]>>)
                       => /\ out.value = 42
                          /\ out.retriesAttempted = 2
                          /\ Len(delays[c]') = 2
                          /\ out.totalDurationMs
                                 >= delays[c]'[1] + delays[c]'[2]]_vars

\* C19, amended: at the step in which a call returns success,
\* totalDurationMs is the clock's reading less its reading when the call
\* began; the clock never goes back; and the totalDurationMs of a returned
\* success is >= 0 and >= the sum of the delays the call waited less, for
\* each delay, the TimerEarly by which the clock can read short of the due
\* time when the timer resolves.  A call whose wrapped executor failed twice
\* and then succeeded with {value: 42} returned success with value 42,
\* retriesAttempted 2 and totalDurationMs at least the sum of the two delays
\* less twice TimerEarly.
C19_TotalDuration ==
    [][/\ now' >= now
       /\ \A c \in Calls :
             (HasReturned(c)' /\ result[c]'[1].success)
             => LET out == result[c]'[1].output[1] IN
                /\ ~HasReturned(c) => out.totalDurationMs = now' - start[c]'
                /\ out.totalDurationMs >= 0
                /\ out.totalDurationMs
                       >= SumSeq(delays[c]') - TimerEarly * Len(delays[c]')
                /\ (/\ Len(history[c]') = 3
                    /\ AllFailed(history[c]', 2)
                    /\ history[c]'[3].output = <<[value |-> 42]>>)
                       => /\ out.value = 42
                          /\ out.retriesAttempted = 2
                          /\ Len(delays[c]') = 2
                          /\ out.totalDurationMs
                                 >= delays[c]'[1] + delays[c]'[2]
                                        - 2 * TimerEarly]_vars

\* C19's case: a call that began after time 0 failed twice, waited 10 and 20,
\* and then succeeded with {value: 42}; both timers resolved while the clock
\* read short of their due times, so that less time passed on the clock than
\* the two delays.
C19_Witness ==
    /\ HasReturned(2)
    /\ start[2] > 0
    /\ Len(history[2]) = 3
    /\ AllFailed(history[2], 2)
    /\ delays[2] = <<10, 20>>
    /\ result[2][1].success
    /\ result[2][1].output[1].value = 42
    /\ result[2][1].output[1].retriesAttempted = 2
    /\ result[2][1].output[1].totalDurationMs = 30 - 2 * TimerEarly

\* Some call of the execution raised.
SomeCallRaised(r) == \E k \in 1..Len(r.log) : r.log[k].raised

\* A call whose raise the executor skips: enrichContact in search_contacts
\* and getRelatedKeywords in seo_keyword_research.
SkippedOnRaise(call) == call.method \in {"enrichContact", "getRelatedKeywords"}

\* C20 as stated: no adapter executor raises, and when any service call it
\* makes raises, the executor returns a failure result.
C20_AdaptersNeverRaise ==
    /\ adapterRun.phase # "raised"
    /\ (adapterRun.phase = "done" /\ SomeCallRaised(adapterRun))
           => ~adapterRun.result[1].success

\* C20, amended: no adapter executor raises; an execution makes no further
\* call after a raise other than those of enrichContact and
\* getRelatedKeywords, and returns a failure result (success = false, an
\* error string, no output) when such a call raised; when only enrichContact
\* or getRelatedKeywords calls raised, the items concerned are skipped and the
\* executor returns success.
C20_AdaptersNeverRaiseAmended ==
    LET r == adapterRun
        fatal == {k \in 1..Len(r.log) :
                     r.log[k].raised /\ ~SkippedOnRaise(r.log[k])}
    IN /\ r.phase # "raised"
       /\ r.phase \in {"idle", "main", "body", "loop", "store", "notify",
                     "done"}
       /\ r.phase = "done" <=> r.result # << >>
       /\ fatal # {} => /\ fatal = {Len(r.log)}
                        /\ r.phase = "done"
                        /\ ~r.result[1].success
                        /\ r.result[1].output = << >>
                        /\ r.result[1].error
                               \in {<<"boom">>, <<Plan(node.type).fallback>>}
       /\ (r.phase = "done" /\ SomeCallRaised(r) /\ fatal = {})
              => /\ r.result[1].success
                 /\ r.result[1].output # << >>

\* C20's case: in social_ai_analyze the analysis and the storing went well
\* and notifications.send then raised a value that is not an Error: the
\* executor returned the failure with its fallback text.
C20_Witness ==
    /\ node.type = "social_ai_analyze"
    /\ adapterRun.phase = "done"
    /\ Len(adapterRun.log) = 4
    /\ adapterRun.log[3].method = "storePosts"
    /\ adapterRun.log[4] = [service |-> "notifications", method |-> "send",
                            raised |-> TRUE]
    /\ adapterRun.result[1]
           = [success |-> FALSE, output |-> << >>,
              error |-> <<"Failed to analyze posts">>]

\* The service each adapter needs, by the key of context.services.
RequiredService(type) ==
    CASE type = "twitter_monitor" -> <<"twitter">>
      [] type = "linkedin_monitor" -> <<"forumScout">>
      [] type = "search_contacts" -> <<"apollo">>
      [] type = "seo_keyword_research" -> <<"dataForSeo">>
      [] type = "sora_video" -> <<"openai">>
      [] type \in {"social_keyword_generator", "social_ai_analyze"}
             -> <<"anthropic">>
      [] OTHER -> << >>

\* The name by which an error speaks of a service.
DisplayName(key) ==
    CASE key = "twitter" -> "Twitter"
      [] key = "forumScout" -> "ForumScout"
      [] key = "apollo" -> "Apollo"
      [] key = "dataForSeo" -> "DataForSEO"
      [] key = "openai" -> "OpenAI"
      [] key = "anthropic" -> "Anthropic"

\* The error that names the unconfigured service.
NotConfigured(key) ==
    DisplayName(key) \o " service not configured. Please provide context.services."
        \o key \o "."

\* The required service of the node is absent from context.services.
RequiredAbsent ==
    /\ RequiredService(node.type) # << >>
    /\ RequiredService(node.type)[1] \notin adapterRun.services

\* Every call made went to a service that is present (the public Reddit
\* endpoint is reached without a service).
CallsOnlyPresent ==
    \A k \in 1..Len(adapterRun.log) :
        \/ adapterRun.log[k].service \in adapterRun.services
        \/ adapterRun.log[k].service = "reddit"

\* C21 as stated: when the required service is absent the executor returns a
\* failure result naming the unconfigured service and makes no call to any
\* service, and a service is called only when present.
C21_ServicePresence ==
    /\ CallsOnlyPresent
    /\ (RequiredAbsent /\ adapterRun.phase # "idle")
           => /\ adapterRun.phase = "done"
              /\ adapterRun.log = << >>
              /\ adapterRun.result[1]
                     = [success |-> FALSE, output |-> << >>,
                        error |-> <<NotConfigured(RequiredService(node.type)[1])>>]

\* C21, amended: when the required service is absent the executor makes no
\* call to any service and returns a failure result, which names the
\* unconfigured service unless the node is twitter_monitor or
\* linkedin_monitor and the input holds no keyword: that input is refused
\* first, with an error about the keywords.  A service, optional ones
\* included, is called only when present.
C21_ServicePresenceAmended ==
    /\ CallsOnlyPresent
    /\ (RequiredAbsent /\ adapterRun.phase # "idle")
           => /\ adapterRun.phase = "done"
              /\ adapterRun.log = << >>
              /\ ~adapterRun.result[1].success
              /\ adapterRun.result[1].output = << >>
              /\ adapterRun.result[1].error
                   = (IF /\ node.type \in {"twitter_monitor", "linkedin_monitor"}
                         /\ adapterRun.units = 0
                        THEN (IF node.type = "twitter_monitor"
                                THEN <<"No keywords provided for Twitter search">>
                                ELSE <<"No valid keywords provided">>)
                        ELSE <<NotConfigured(RequiredService(node.type)[1])>>)

\* C21's case: search_contacts was called without the apollo service and
\* returned the failure that names it, having called nothing.
C21_Witness ==
    /\ node.type = "search_contacts"
    /\ adapterRun.services = {}
    /\ adapterRun.phase = "done"
    /\ adapterRun.log = << >>
    /\ adapterRun.result[1].error
           = <<"Apollo service not configured. Please provide context.services.apollo.">>

\* The attempt returned success = true without an output.
SuccessWithoutOutput(o) == o.kind = "return" /\ o.success /\ o.output = << >>

\* C22: a wrapped result with success = true but an undefined output is a
\* failed attempt: once it is the latest outcome the decorated call has not
\* returned success, lastError is that result's error field, and the call
\* waits the delay and makes the next attempt if that attempt's index was
\* below maxRetries, and has otherwise returned the exhaustion failure.
C22_UndefinedOutputFails ==
    \A c \in Calls :
        (history[c] # << >> /\ SuccessWithoutOutput(Last(history[c])))
        => LET k == Len(history[c]) IN
           /\ lastError[c] = Last(history[c]).error
           /\ result[c] # << >> => ~result[c][1].success
           /\ IF k - 1 < input[c].maxRetries
                THEN /\ pc[c] \in {"delaying", "awaiting"}
                     /\ Len(delays[c]) = k
                     /\ pc[c] = "awaiting" => invocations[c] = k + 1
                ELSE /\ HasReturned(c)
                     /\ result[c][1].error
                            = <<CountPrefix(input[c].maxRetries)
                                \o (IF Last(history[c]).error = << >>
                                      THEN "undefined"
                                      ELSE Last(history[c]).error[1])>>

\* C22's case: the first attempt failed with "boom", the second returned
\* success without an output but with the error "bust", and the third
\* attempt has been started.
C22_Witness ==
    /\ Len(history[1]) = 2
    /\ history[1][1] = Returned(FALSE, << >>, <<"boom">>)
    /\ history[1][2] = Returned(TRUE, << >>, <<"bust">>)
    /\ lastError[1] = <<"bust">>
    /\ pc[1] = "awaiting"
    /\ invocations[1] = 3

\* C23: no delay is waited after the last permitted attempt.  When the
\* attempt with index maxRetries has failed the call has returned the
\* exhaustion failure and is not suspended on a timer; an exhausted call has
\* waited exactly maxRetries delays, a call that succeeded on attempt i has
\* waited exactly i delays, and in both no timer is pending.
C23_NoTrailingDelay ==
    \A c \in Calls :
        /\ (/\ Len(history[c]) = input[c].maxRetries + 1
            /\ AllFailed(history[c], Len(history[c])))
               => /\ pc[c] = "done"
                  /\ ~result[c][1].success
        /\ (HasReturned(c) /\ ~result[c][1].success)
               => /\ Len(delays[c]) = input[c].maxRetries
                  /\ pc[c] # "delaying"
                  /\ wake[c] <= now + TimerEarly
        /\ (HasReturned(c) /\ result[c][1].success)
               => /\ Len(delays[c]) = Len(history[c]) - 1
                  /\ Len(delays[c]) = result[c][1].output[1].retriesAttempted
                  /\ pc[c] # "delaying"
                  /\ wake[c] <= now + TimerEarly

\* C24: the decorated executor returns success if and only if some attempt
\* with index <= maxRetries returned success with a defined output, and it
\* returns at the first such attempt: a successful attempt is the last
\* outcome of its call, after which the wrapped executor is not invoked again
\* and no further delay is waited.
C24_SuccessIffAttempt ==
    \A c \in Calls :
        /\ HasReturned(c)
              => (result[c][1].success
                    <=> \E k \in 1..Len(history[c]) :
                           /\ k - 1 <= input[c].maxRetries
                           /\ OutcomeSucceeded(history[c][k]))
        /\ \A k \in 1..Len(history[c]) :
              OutcomeSucceeded(history[c][k])
              => /\ k = Len(history[c])
                 /\ AllFailed(history[c], k - 1)
                 /\ HasReturned(c)
                 /\ result[c][1].success
                 /\ invocations[c] = k
                 /\ Len(delays[c]) = k - 1
                 /\ pc[c] # "delaying"

\* C24's case: the second of four permitted attempts succeeded and the call
\* returned with it, after two invocations and one delay.
C24_Witness ==
    /\ input[1].maxRetries = 3
    /\ Len(history[1]) = 2
    /\ ~OutcomeSucceeded(history[1][1])
    /\ OutcomeSucceeded(history[1][2])
    /\ HasReturned(1)
    /\ result[1][1].success
    /\ invocations[1] = 2
    /\ Len(delays[1]) = 1

\* C25: the decorated executor performs no bounds re-checking.  Called with
\* maxRetries outside 1..10 (0 or 12) or backoffMultiplier below 1 (0) it
\* does not reject the input (it invokes the wrapped executor, and fails only
\* by exhaustion after maxRetries + 1 attempts), and it does not replace the
\* values: the loop makes up to maxRetries + 1 attempts and every delay is
\* min(initialDelayMs * backoffMultiplier^(k-1), maxDelayMs) with the values
\* as given.
C25_NoBoundsRecheck ==
    \A c \in Calls :
        /\ pc[c] # "idle" => invocations[c] >= 1
        /\ invocations[c] <= input[c].maxRetries + 1
        /\ (HasReturned(c) /\ ~result[c][1].success)
               => /\ invocations[c] = input[c].maxRetries + 1
                  /\ AllFailed(history[c], Len(history[c]))
        /\ \A k \in 1..Len(delays[c]) :
              delays[c][k]
                  = Min(input[c].initialDelayMs
                            * Pow(input[c].backoffMultiplier, k - 1),
                        input[c].maxDelayMs)

\* C26: termination.  A call that has begun, whose wrapped invocations all
\* settle and whose timers all fire, eventually returns a result, and no call
\* makes more than maxRetries + 1 invocations or waits more than maxRetries
\* delays.  A call whose wrapped invocation has not settled takes no step of
\* its own: as long as the invocation is pending the call stays suspended on
\* it, has no result and starts no further attempt, whatever time passes
\* (there is no per-attempt timeout).
C26_Termination ==
    /\ (pc[1] # "idle") ~> HasReturned(1)
    /\ [](\A c \in Calls : /\ invocations[c] <= input[c].maxRetries + 1
                           /\ Len(delays[c]) <= input[c].maxRetries)
    /\ [][\A c \in Calls :
             (pc[c] = "awaiting" /\ history'[c] = history[c])
             => /\ pc'[c] = "awaiting"
                /\ invocations'[c] = invocations[c]
                /\ attempt'[c] = attempt[c]
                /\ result'[c] = << >>]_vars

\* The invocations of the innermost executor, over all the calls of the inner
\* executor.
InnermostInvocations ==
    SumSeq([k \in 1..(ChainMaxRetries + 1) |-> invocations[1 + k]])

\* C27: for a wrapper wrapped a second time over an innermost executor that
\* always fails, called with maxRetries = m: the outer call never raises;
\* every call of the inner executor is given the input and the context of
\* the outer call, so both layers read the same retry configuration; and
\* when the outer call has ended it has returned a failure result and the
\* innermost executor has been invoked (m+1)*(m+1) times in all.
C27_Chaining ==
    LET m == input[1].maxRetries IN
    /\ pc[1] # "raised"
    /\ \A k \in 1..(ChainMaxRetries + 1) :
          pc[1 + k] # "idle" => /\ input[1 + k] = input[1]
                                /\ context[1 + k] = context[1]
    /\ pc[1] = "done" =>
          /\ result[1] # Undefined
          /\ ~result[1][1].success
          /\ result[1][1].output = Undefined
          /\ InnermostInvocations = (m + 1) * (m + 1)

\* The call of notifications.send, raised.
SendRaised ==
    [service |-> "notifications", method |-> "send", raised |-> TRUE]

\* The execution of the adapter ended when its notification raised.
NotificationFailed(r) ==
    /\ r.phase = "done"
    /\ r.log # << >>
    /\ Last(r.log) = SendRaised

\* The first service call of a notifying adapter: its search, or its text
\* generation.
MainCall(type) ==
    CASE type = "twitter_monitor" ->
           [service |-> "twitter", method |-> "searchTweets", raised |-> FALSE]
      [] type = "linkedin_monitor" ->
           [service |-> "forumScout", method |-> "searchLinkedIn",
            raised |-> FALSE]
      [] type = "reddit_monitor" ->
           [service |-> "reddit", method |-> "fetch", raised |-> FALSE]
      [] type = "social_keyword_generator" ->
           [service |-> "anthropic", method |-> "generateText",
            raised |-> FALSE]

\* The calls by which a notifying adapter does its work: the main call and,
\* for reddit_monitor, the reading of the response's body.
WorkCalls(type) ==
    IF type = "reddit_monitor"
      THEN <<MainCall(type),
             [service |-> "reddit", method |-> "json", raised |-> FALSE]>>
      ELSE <<MainCall(type)>>

\* The texts a failure of the notification can leave: the message of the
\* Error raised, or the adapter's own text for a raised value that is not an
\* Error.
NotificationErrors(type) ==
    {"boom",
     CASE type = "twitter_monitor" -> "Failed to monitor Twitter"
       [] type = "linkedin_monitor" -> "Failed to monitor LinkedIn"
       [] type = "reddit_monitor" -> "Failed to monitor Reddit"
       [] type = "social_keyword_generator" -> "Failed to generate keywords"
       [] type = "social_ai_analyze" -> "Failed to analyze posts"}

\* The monitors and the keyword generator.
MonitorsAndGenerator ==
    {"twitter_monitor", "linkedin_monitor", "reddit_monitor",
     "social_keyword_generator"}

\* C28: in twitter_monitor, linkedin_monitor, reddit_monitor and
\* social_keyword_generator, notifications.send is called only when the
\* service is present in the context of the call, after the calls of the
\* main work have returned; when it raises, the executor returns a failure
\* result with no output, whose error is the notification's (the message of
\* the Error raised), so the posts or keywords found are not returned; the
\* retry wrapper around the node takes that failure as it takes any other,
\* and while retries remain its next invocation runs the executor from the
\* start, beginning with the main call again.  The notification of
\* social_ai_analyze is sent under the same condition and fails the same
\* way.
C28_NotificationFailure ==
    /\ [](\A i \in 1..Len(adapterRun.log) :
            adapterRun.log[i].service = "notifications" =>
              /\ "notifications" \in context[1].services
              /\ node.type \in MonitorsAndGenerator =>
                    /\ i > Len(WorkCalls(node.type))
                    /\ SubSeq(adapterRun.log,
                              i - Len(WorkCalls(node.type)), i - 1)
                          = WorkCalls(node.type))
    /\ [](NotificationFailed(adapterRun) =>
            /\ adapterRun.result # Undefined
            /\ ~adapterRun.result[1].success
            /\ adapterRun.result[1].output = Undefined
            /\ adapterRun.result[1].error # Undefined
            /\ adapterRun.result[1].error[1] \in NotificationErrors(node.type))
    /\ [][/\ NotificationFailed(adapterRun)
           /\ Len(history'[1]) = Len(history[1]) + 1
           => /\ Last(history'[1]).kind = "return"
              /\ ~Last(history'[1]).success
              /\ Last(history'[1]).output = Undefined
              /\ Last(history'[1]).error = adapterRun.result[1].error
              /\ IF attempt[1] < input[1].maxRetries
                   THEN pc'[1] = "delaying"
                   ELSE /\ pc'[1] = "done"
                        /\ ~result'[1][1].success
                        /\ result'[1][1].output = Undefined]_vars
    /\ [][/\ NotificationFailed(adapterRun)
           /\ node.type \in MonitorsAndGenerator
           /\ adapterRun'.runs = adapterRun.runs + 1
           => /\ adapterRun'.phase = "main"
              /\ adapterRun'.count = 0
              /\ adapterRun'.found = 0
              /\ adapterRun'.result = Undefined
              /\ adapterRun'.log =
                    Append(adapterRun.log, MainCall(node.type))]_vars

C28_Witness ==
    /\ node.type = "twitter_monitor"
    /\ adapterRun.runs = 2
    /\ Len(adapterRun.log) = 4
    /\ adapterRun.log[2] = SendRaised
    /\ adapterRun.log[3] = MainCall("twitter_monitor")
    /\ NotificationFailed(adapterRun)
    /\ adapterRun.count = 2
    /\ HasReturned(1)
    /\ ~result[1][1].success
    /\ invocations[1] = 2

\* The seeds that are not blank, in the order of the input.
NonBlank(seeds) == SelectSeq(seeds, LAMBDA s : s \notin {"", " "})

\* A keyword without regard to case.
Folded(k) == CASE k \in {"seo", "SEO"} -> "seo"
               [] k = "ads" -> "ads"

\* The keywords the service returned for the seeds that did not fail.
Answered(answers) ==
    UNION {{a.results[j] : j \in 1..Len(a.results)} :
             a \in {answers[i] : i \in {n \in 1..Len(answers) :
                                           answers[n].kind = "return"}}}

\* C29: the service is called with non-blank seeds only, in the order of the
\* input, and a raise for one seed does not stop the calls for the next; so
\* when the executor (given the service) has ended, every non-blank seed
\* has been queried, whatever raised, and the result is a success whose
\* keywords are those returned for the seeds that did not fail, each once
\* whatever its case, by searchVolume descending, with totalResearched their
\* number.
C29_SeedFailuresTolerated ==
    /\ Len(seoRun.queried) <= Len(NonBlank(seoRun.seeds))
    /\ seoRun.queried = SubSeq(NonBlank(seoRun.seeds), 1, Len(seoRun.queried))
    /\ seoRun.phase = "query" => Len(seoRun.answers) = Len(seoRun.queried) - 1
    /\ seoRun.phase = "done" /\ seoRun.hasService =>
          /\ seoRun.queried = NonBlank(seoRun.seeds)
          /\ Len(seoRun.answers) = Len(seoRun.queried)
          /\ seoRun.result # Undefined
          /\ seoRun.result[1].success
          /\ seoRun.result[1].error = Undefined
          /\ LET out == seoRun.result[1].output[1]
                 ks == out.keywords IN
             /\ out.totalResearched = Len(ks)
             /\ \A i, j \in 1..Len(ks) :
                   i < j => /\ ks[i].searchVolume >= ks[j].searchVolume
                            /\ Folded(ks[i].keyword) # Folded(ks[j].keyword)
             /\ {Folded(ks[i].keyword) : i \in 1..Len(ks)}
                   = {Folded(kw.keyword) : kw \in Answered(seoRun.answers)}
             /\ \A i \in 1..Len(ks) :
                   \E kw \in Answered(seoRun.answers) :
                      /\ ks[i].keyword = kw.keyword
                      /\ ks[i].searchVolume = kw.searchVolume

C29_Witness ==
    /\ seoRun.phase = "done"
    /\ seoRun.seeds = <<"seo", " ads ">>
    /\ Len(seoRun.answers) = 2
    /\ seoRun.answers[1].kind = "throw"
    /\ seoRun.answers[2].kind = "return"
    /\ Len(seoRun.answers[2].results) = 2
    /\ seoRun.answers[2].results[1].keyword = "seo"
    /\ seoRun.answers[2].results[2].keyword = "ads"
    /\ seoRun.result # Undefined
    /\ seoRun.result[1].success
    /\ seoRun.result[1].output[1].totalResearched = 2
    /\ seoRun.result[1].output[1].keywords[1].keyword = "ads"
    /\ seoRun.result[1].output[1].keywords[2].keyword = "seo"

====
